---- MODULE Spec2Model ----
(***************************************************************************)
(* Verification model of the document-to-audiobook converter               *)
(* (Alexawy82/Audio).  Strings are sequences of one-character strings.     *)
(* Each component has its own specification over its own variables:        *)
(*   SpecChunk   EnhancedTTS._split_text_to_chunks                         *)
(*   SpecCache   core/tts/cache.py TTSCache and core/cache_manager.py       *)
(*               TTSCache, over one shared disk                            *)
(*   SpecEvict   core/tts/cache.py TTSCache filled beyond its max_size      *)
(*   SpecKey     core/tts/cache.py TTSCache: a store and a lookup under     *)
(*               texts and settings that differ in form                    *)
(*   SpecHits    threads in get_cached_audio of one shared TTSCache        *)
(*   SpecBook    DocToAudiobook.create_audiobook with                      *)
(*               EnhancedTTS.generate_audio                                *)
(*   SpecJobs    JobManager with app.py upload_file / process_job_thread   *)
(*   SpecChapters ChapterManager.detect_chapters                           *)
(*   SpecFallback ChapterManager._fallback_chapter_detection at full scale,  *)
(*               the text left abstract                                    *)
(*   SpecText    one call of either text splitter                          *)
(***************************************************************************)
EXTENDS Integers, Sequences, FiniteSets, TLC

VARIABLES
    ck_text,        \* _split_text_to_chunks: argument text
    ck_max,         \* _split_text_to_chunks: argument max_chunk_size
    ck_result       \* _split_text_to_chunks: [done, raised, chunks]

chunkVars == <<ck_text, ck_max, ck_result>>

VARIABLES
    cache_impl,     \* which TTSCache class the process uses: "tts" | "cm"
    cache_rows,     \* core/tts/cache.py: rows of table `cache`
    cm_rows,        \* core/cache_manager.py: rows of table `cache`
    fs_files,       \* the disk: path -> "absent" | "empty" | "data"
    cache_now,      \* datetime.now(): one tick per cache call
    cache_call,     \* the last cache call and what it returned
    cache_live,     \* history: pair -> path of its entry while that entry
                    \* is stored, not evicted/cleared/replaced, file present
    cache_stored    \* history: the pairs a store has been accepted for

cacheVars == <<cache_impl, cache_rows, cm_rows, fs_files, cache_now, cache_call,
               cache_live, cache_stored>>

VARIABLES
    bk_pc,            \* create_audiobook: position in the function
    bk_chapters,      \* chapters, as returned by detect_chapters
    bk_i,             \* index of the chapter the loop is at (1-based)
    bk_chunks,        \* generate_audio: number of chunks of the chapter
    bk_chunk,         \* generate_audio: index of the chunk being sent
    bk_retry,         \* generate_audio: retry (0-based attempt number)
    bk_audio,         \* generate_audio: combined_audio, as chunk indexes
    bk_output_files,  \* output_files
    bk_successful,    \* successful_chapters
    bk_result,        \* the returned dictionary, None while running
    bk_log            \* history: chapters reached / raised, API calls of
                      \* the chapter at hand, outcome of the collaborators

bookVars == <<bk_pc, bk_chapters, bk_i, bk_chunks, bk_chunk, bk_retry,
              bk_audio, bk_output_files, bk_successful, bk_result, bk_log>>

VARIABLES
    jm_active_jobs,   \* JobManager.active_jobs: job id -> job dict or None
    jm_lock,          \* JobManager.job_lock: the thread holding it, or None
    jm_inside,        \* threads inside an access of active_jobs made
                      \* without the lock
    jm_pc,            \* position of every thread
    jm_dirs,          \* upload -> its job directory exists on disk
    jm_old,           \* uploads created before the janitor's cutoff date
    jm_queue,         \* cleanup_old_jobs: jobs_to_clean still to process
    jm_conv,          \* process_job_thread: upload -> result of
                      \* create_audiobook, None before
    jm_calls          \* number of calls made by other users of the registry

jobVars == <<jm_active_jobs, jm_lock, jm_inside, jm_pc, jm_dirs, jm_old,
             jm_queue, jm_conv, jm_calls>>

VARIABLES
    ch_text,          \* detect_chapters: argument text
    ch_max,           \* detect_chapters: argument max_chapters
    ch_result         \* detect_chapters: [done, raised, chapters, via,
                      \* errors], and the history of where the chapters
                      \* lie in the text (spans) and of the strategies
                      \* called (tried)

chapterVars == <<ch_text, ch_max, ch_result>>

VARIABLES
    hit_pc,           \* threads in get_cached_audio of one shared TTSCache:
                      \* position of every thread
    hit_local,        \* thread -> the access_count it has read
    hit_cursor,       \* self.cursor, shared: the rows its last statement
                      \* has still to hand out
    hit_calls,        \* thread -> calls of get_cached_audio begun
    hit_hits          \* history: calls that returned the path

hitVars == <<hit_pc, hit_local, hit_cursor, hit_calls, hit_hits>>

VARIABLES
    fb_args,          \* _fallback_chapter_detection at full scale: len(text),
                      \* max_chapters of the running pass and of the first
                      \* call, whitespace at a chapter end
    fb_pc,            \* position in the function
    fb_loop,          \* num_chapters, target_chapter_size, current_pos,
                      \* len(chapters), chapter_num, summed content length
    fb_pass,          \* depth of the recursion of line 513 (first call: 1)
    fb_result         \* what is returned: None, or kind, count and sum

fallbackVars == <<fb_args, fb_pc, fb_loop, fb_pass, fb_result>>

\* what the steps of one component leave alone
otherThanChunk == <<cacheVars, bookVars, jobVars, chapterVars, hitVars, fallbackVars>>
otherThanCache == <<chunkVars, bookVars, jobVars, chapterVars, hitVars, fallbackVars>>
otherThanBook == <<chunkVars, cacheVars, jobVars, chapterVars, hitVars, fallbackVars>>
otherThanJobs == <<chunkVars, cacheVars, bookVars, chapterVars, hitVars, fallbackVars>>
otherThanChapters == <<cacheVars, bookVars, jobVars, chunkVars, hitVars, fallbackVars>>
otherThanFallback == <<chunkVars, cacheVars, bookVars, jobVars, chapterVars, hitVars>>
otherThanHits == <<chunkVars, bookVars, jobVars, chapterVars, fallbackVars>>

(***************************************************************************)
(* Bounds of the model                                                     *)
(***************************************************************************)
\* longest text handed to the chunker
MaxTextLen == 5
\* largest max_chunk_size tried beyond the provider ceiling
MaxSizeOver == 1
\* number of cache calls in one run
MaxCacheCalls == 3
\* TTSCache(max_size=...), the constructor argument (default 1000)
CacheMaxSize == 1
\* the same argument of the cache whose evictions are followed
EvictMaxSize == 2
\* number of texts stored in that cache, and of calls made on it
MaxEvictKeys == 3
MaxEvictCalls == 4
\* calls made on the cache whose keys are compared
MaxKeyCalls == 2
\* depth at which the recursion of _fallback_chapter_detection is cut by
\* RecursionError (sys.getrecursionlimit(), 1000 by default)
RecursionLimit == 3
\* threads that look up one entry of a shared cache, and lookups of each
MaxHitThreads == 2
MaxHitCalls == 2

\* most chapters detect_chapters returns to create_audiobook
MaxBookChapters == 5
\* most chunks one chapter is split into
MaxChunks == 2

\* most pieces a text handed to detect_chapters is made of
MaxSegments == 4
\* most 'Chapter N: Title' headings in a text handed to detect_chapters
MaxMarkers == 2

\* uploads in one run
MaxUploads == 1
\* calls of update_job_status / update_job_progress by other users of
\* the registry
MaxRegistryCalls == 2
\* runs of the janitor sweep
MaxSweeps == 1

(***************************************************************************)
(* Program constants.  The character limits are scaled down so that texts  *)
(* of a few characters cross them; their order (fallback size below the    *)
(* provider ceiling) is the source's.                                      *)
(***************************************************************************)
\* min(max_chunk_size, 4000) and the final "> 4000" check, scaled
ApiLimit == 3
\* the 3800-character emergency / fallback chunk size, scaled
FallbackSize == 2
\* generate_audio: max_retries
MaxRetries == 3

(***************************************************************************)
(* Characters and Python string helpers                                    *)
(***************************************************************************)
ChunkAlphabet == {"a", " ", "\n", ".", ","}

\* str.isspace() for one character (the characters \s and strip() remove)
IsWs(c) == c \in {" ", "\n", "\t"}

Min(a, b) == IF a <= b THEN a ELSE b
Max(a, b) == IF a >= b THEN a ELSE b

\* s[i:j] with 0-based Python bounds already clamped to 0..len(s)
Slice(s, i, j) == IF j <= i THEN <<>> ELSE SubSeq(s, i + 1, j)

RECURSIVE LStripIdx(_, _)
\* 1-based index of the first non-whitespace character at or after i
LStripIdx(s, i) ==
    IF i > Len(s) THEN i
    ELSE IF IsWs(s[i]) THEN LStripIdx(s, i + 1) ELSE i

RECURSIVE RStripIdx(_, _)
\* 1-based index of the last non-whitespace character at or before i
RStripIdx(s, i) ==
    IF i < 1 THEN i
    ELSE IF IsWs(s[i]) THEN RStripIdx(s, i - 1) ELSE i

\* str.strip()
Strip(s) ==
    LET a == LStripIdx(s, 1)
        b == RStripIdx(s, Len(s))
    IN  IF a > b THEN <<>> ELSE SubSeq(s, a, b)

RECURSIVE WsRunEnd(_, _)
\* last index of the whitespace run that contains index i (s[i] is whitespace)
WsRunEnd(s, i) ==
    IF i + 1 <= Len(s) /\ IsWs(s[i + 1]) THEN WsRunEnd(s, i + 1) ELSE i

RECURSIVE LastNewlineIn(_, _, _)
\* largest j in i..e with s[j] = "\n", or 0
LastNewlineIn(s, i, e) ==
    IF e < i THEN 0
    ELSE IF s[e] = "\n" THEN e ELSE LastNewlineIn(s, i, e - 1)

RECURSIVE ParaSplitFrom(_, _, _)
\* re.split(r'\n\s*\n', s): pieces from piece start `start`, scanning at i
ParaSplitFrom(s, start, i) ==
    IF i > Len(s) THEN << Slice(s, start - 1, Len(s)) >>
    ELSE IF s[i] = "\n"
         THEN LET j == LastNewlineIn(s, i + 1, WsRunEnd(s, i))
              IN  IF j > i
                  THEN << Slice(s, start - 1, i - 1) >>
                         \o ParaSplitFrom(s, j + 1, j + 1)
                  ELSE ParaSplitFrom(s, start, i + 1)
         ELSE ParaSplitFrom(s, start, i + 1)

SplitParagraphs(s) == ParaSplitFrom(s, 1, 1)

RECURSIVE PunctSplitFrom(_, _, _, _)
\* re.split(r'(?<=[P])\s+', s) for the character class P
PunctSplitFrom(s, P, start, i) ==
    IF i > Len(s) THEN << Slice(s, start - 1, Len(s)) >>
    ELSE IF i >= 2 /\ IsWs(s[i]) /\ s[i - 1] \in P
         THEN LET e == WsRunEnd(s, i)
              IN  << Slice(s, start - 1, i - 1) >>
                     \o PunctSplitFrom(s, P, e + 1, e + 1)
         ELSE PunctSplitFrom(s, P, start, i + 1)

SentenceEnds == {".", "!", "?"}
ClauseEnds == {",", ";", ":"}

SplitSentences(s) == PunctSplitFrom(s, SentenceEnds, 1, 1)
SplitPhrases(s) == PunctSplitFrom(s, ClauseEnds, 1, 1)

RECURSIVE WordsFrom(_, _)
\* str.split(): maximal runs of non-whitespace characters
WordsFrom(s, i) ==
    LET a == LStripIdx(s, i)
    IN  IF a > Len(s) THEN <<>>
        ELSE LET b == CHOOSE k \in a..Len(s) :
                        /\ \A m \in a..k : ~IsWs(s[m])
                        /\ (k = Len(s) \/ IsWs(s[k + 1]))
             IN  << SubSeq(s, a, b) >> \o WordsFrom(s, b + 1)

SplitWords(s) == WordsFrom(s, 1)

RECURSIVE FixedSlices(_, _, _)
\* [s[i:i+n] for i in range(i0, len(s), n)] for a step n >= 1
FixedSlices(s, i0, n) ==
    IF i0 >= Len(s) THEN <<>>
    ELSE << Slice(s, i0, Min(i0 + n, Len(s))) >> \o FixedSlices(s, i0 + n, n)

\* the same for any step: a negative step gives an empty range; a zero step
\* makes range() raise ValueError, which the callers test before calling
RangeSlices(s, n) == IF n >= 1 THEN FixedSlices(s, 0, n) ELSE <<>>

(***************************************************************************)
(* EnhancedTTS._split_text_to_chunks                                       *)
(* The loops thread a record [chunks, cur, exc]: the output list, the      *)
(* accumulator of the loop (current_chunk / phrase_chunk / word_chunk) and *)
(* whether an exception has been raised.                                   *)
(***************************************************************************)
\* the pieces put together with nothing between them
JoinWithout(a, sep, b) == a \o b

\* "a" + " " + "b" / "a" + "\n\n" + "b"
JoinWith(a, sep, b) == a \o sep \o b

\* chunks.append(acc) guarded by "if acc:"
AppendIfAny(chunks, acc) == IF acc = <<>> THEN chunks ELSE Append(chunks, acc)

RECURSIVE WordLoop(_, _, _, _)
\* for word in words (lines 359-374); st.cur is word_chunk
WordLoop(words, k, st, safe) ==
    IF k > Len(words) \/ st.exc THEN st
    ELSE LET word == words[k] IN
         IF Len(st.cur) + Len(word) + 1 <= safe
         THEN WordLoop(words, k + 1,
                  [st EXCEPT !.cur = IF st.cur # <<>>
                                     THEN JoinWith(st.cur, <<" ">>, word)
                                     ELSE word], safe)
         ELSE LET flushed == AppendIfAny(st.chunks, st.cur) IN
              IF Len(word) > safe
              THEN IF safe = 0
                   THEN [st EXCEPT !.chunks = flushed, !.exc = TRUE]
                   ELSE WordLoop(words, k + 1,
                            [st EXCEPT !.chunks = flushed \o RangeSlices(word, safe)],
                            safe)
              ELSE WordLoop(words, k + 1,
                       [st EXCEPT !.chunks = flushed, !.cur = word], safe)

\* lines 354-378: split an over-long phrase at word boundaries
SplitLongPhrase(phrase, chunks, safe) ==
    LET r == WordLoop(SplitWords(phrase), 1,
                      [chunks |-> chunks, cur |-> <<>>, exc |-> FALSE], safe)
    IN  [chunks |-> AppendIfAny(r.chunks, r.cur), exc |-> r.exc]

RECURSIVE PhraseLoop(_, _, _, _)
\* for phrase in phrases (lines 342-380); st.cur is phrase_chunk
PhraseLoop(phrases, k, st, safe) ==
    IF k > Len(phrases) \/ st.exc THEN st
    ELSE LET phrase == phrases[k] IN
         IF Len(st.cur) + Len(phrase) + 1 <= safe
         THEN PhraseLoop(phrases, k + 1,
                  [st EXCEPT !.cur = IF st.cur # <<>>
                                     THEN JoinWith(st.cur, <<" ">>, phrase)
                                     ELSE phrase], safe)
         ELSE LET flushed == AppendIfAny(st.chunks, st.cur) IN
              IF Len(phrase) > safe
              THEN LET w == SplitLongPhrase(phrase, flushed, safe)
                   IN  PhraseLoop(phrases, k + 1,
                           [st EXCEPT !.chunks = w.chunks, !.exc = w.exc], safe)
              ELSE PhraseLoop(phrases, k + 1,
                       [st EXCEPT !.chunks = flushed, !.cur = phrase], safe)

\* lines 335-384: split an over-long sentence at clause boundaries
SplitLongSentence(sentence, chunks, safe) ==
    LET r == PhraseLoop(SplitPhrases(sentence), 1,
                        [chunks |-> chunks, cur |-> <<>>, exc |-> FALSE], safe)
    IN  [chunks |-> AppendIfAny(r.chunks, r.cur), exc |-> r.exc]

RECURSIVE SentenceLoop(_, _, _, _)
\* for sentence in sentences (lines 322-386); st.cur is current_chunk
SentenceLoop(sentences, k, st, safe) ==
    IF k > Len(sentences) \/ st.exc THEN st
    ELSE LET sentence == sentences[k] IN
         IF Len(st.cur) + Len(sentence) + 1 <= safe
         THEN SentenceLoop(sentences, k + 1,
                  [st EXCEPT !.cur = IF st.cur # <<>>
                                     THEN JoinWith(st.cur, <<" ">>, sentence)
                                     ELSE sentence], safe)
         ELSE LET flushed == AppendIfAny(st.chunks, st.cur) IN
              IF Len(sentence) > safe
              THEN LET p == SplitLongSentence(sentence, flushed, safe)
                   IN  SentenceLoop(sentences, k + 1,
                           [st EXCEPT !.chunks = p.chunks, !.exc = p.exc], safe)
              ELSE SentenceLoop(sentences, k + 1,
                       [st EXCEPT !.chunks = flushed, !.cur = sentence], safe)

RECURSIVE ParagraphLoop(_, _, _, _)
\* for paragraph in paragraphs (lines 305-392); st.cur is current_chunk
ParagraphLoop(paragraphs, k, st, safe) ==
    IF k > Len(paragraphs) \/ st.exc THEN st
    ELSE LET paragraph == Strip(paragraphs[k]) IN
         IF paragraph = <<>> THEN ParagraphLoop(paragraphs, k + 1, st, safe)
         ELSE LET s1 == IF st.cur # <<>> /\ Len(st.cur) + Len(paragraph) + 2 > safe
                        THEN [st EXCEPT !.chunks = Append(st.chunks, st.cur),
                                        !.cur = <<>>]
                        ELSE st
              IN  IF Len(paragraph) > safe
                  THEN ParagraphLoop(paragraphs, k + 1,
                           SentenceLoop(SplitSentences(paragraph), 1, s1, safe), safe)
                  ELSE ParagraphLoop(paragraphs, k + 1,
                           [s1 EXCEPT !.cur = IF s1.cur # <<>>
                                              THEN JoinWith(s1.cur, <<"\n", "\n">>, paragraph)
                                              ELSE paragraph], safe)

RECURSIVE VerifyChunks(_, _, _)
\* lines 399-407: force-split every chunk that is still over the limit
VerifyChunks(chunks, k, safe) ==
    IF k > Len(chunks) THEN <<>>
    ELSE (IF Len(chunks[k]) > safe
          THEN RangeSlices(chunks[k], safe)
          ELSE << chunks[k] >>) \o VerifyChunks(chunks, k + 1, safe)

RECURSIVE DropBlank(_, _)
\* line 420: [chunk for chunk in verified_chunks if chunk.strip()]
DropBlank(chunks, k) ==
    IF k > Len(chunks) THEN <<>>
    ELSE (IF Strip(chunks[k]) # <<>> THEN << chunks[k] >> ELSE <<>>)
            \o DropBlank(chunks, k + 1)

\* max((len(chunk) for chunk in chunks), default=0)
MaxChunkLength(chunks) ==
    IF chunks = <<>> THEN 0
    ELSE CHOOSE m \in {Len(chunks[k]) : k \in 1..Len(chunks)} :
            \A k \in 1..Len(chunks) : Len(chunks[k]) <= m

\* lines 428-429 and 442-443: [text[i:i+3800] for i in range(0, len(text), 3800)]
CharacterChunks(text) == FixedSlices(text, 0, FallbackSize)

\* lines 420-432: blank chunks dropped, then the final safety check
FinalSafetyCheck(verified, text) ==
    IF MaxChunkLength(verified) > ApiLimit
    THEN [exc |-> FALSE, chunks |-> CharacterChunks(text)]
    ELSE [exc |-> FALSE, chunks |-> verified]

\* lines 394-432: the chunks of the paragraph loop are verified; a zero
\* step in the force-split range raises as well
VerifyAndCheck(chunks, safe_max_size, text) ==
    IF safe_max_size = 0 /\ \E k \in 1..Len(chunks) : Len(chunks[k]) > 0
    THEN [exc |-> TRUE, chunks |-> <<>>]
    ELSE FinalSafetyCheck(DropBlank(VerifyChunks(chunks, 1, safe_max_size), 1), text)

\* lines 388-432: the last current_chunk is added, the chunks verified
AfterParagraphs(st, safe_max_size, text) ==
    IF st.exc THEN [exc |-> TRUE, chunks |-> <<>>]
    ELSE VerifyAndCheck(AppendIfAny(st.chunks, st.cur), safe_max_size, text)

\* the try block without the early return of lines 294-295
SplitWithinNoShortcut(text, safe_max_size) ==
    AfterParagraphs(ParagraphLoop(SplitParagraphs(text), 1,
                        [chunks |-> <<>>, cur |-> <<>>, exc |-> FALSE],
                        safe_max_size),
                    safe_max_size, text)

\* the try block for a given safe_max_size, lines 293-432
SplitWithin(text, safe_max_size) ==
    IF Len(text) <= safe_max_size
    THEN [exc |-> FALSE, chunks |-> << text >>]
    ELSE AfterParagraphs(ParagraphLoop(SplitParagraphs(text), 1,
                             [chunks |-> <<>>, cur |-> <<>>, exc |-> FALSE],
                             safe_max_size),
                         safe_max_size, text)

\* the try block, lines 290-432; exc = TRUE when it leaves by an exception
SplitTry(text, max_chunk_size) ==
    SplitWithin(text, Min(max_chunk_size, ApiLimit))

\* lines 434-446 without the handler: the exception leaves the function
OnExceptionReraises(t, text) ==
    IF t.exc
    THEN [done |-> FALSE, raised |-> TRUE, chunks |-> <<>>]
    ELSE [done |-> FALSE, raised |-> FALSE, chunks |-> t.chunks]

\* the except handler, lines 434-446
OnException(t, text) ==
    IF t.exc
    THEN [done |-> FALSE, raised |-> FALSE, chunks |-> CharacterChunks(text)]
    ELSE [done |-> FALSE, raised |-> FALSE, chunks |-> t.chunks]

\* _split_text_to_chunks: the try block with its except handler;
\* raised = TRUE when an exception reaches the caller
SplitTextToChunks(text, max_chunk_size) ==
    OnException(SplitTry(text, max_chunk_size), text)

(***************************************************************************)
(* SpecChunk: one call of _split_text_to_chunks on every bounded input     *)
(***************************************************************************)
\* all strings over alphabet A of length at most n
StringsUpTo(A, n) == UNION { [1..m -> A] : m \in 0..n }

ChunkSizes == (0 - 1)..(ApiLimit + MaxSizeOver)

NoResult == [done |-> FALSE, raised |-> FALSE, chunks |-> <<>>]

InitChunk ==
    /\ ck_text \in StringsUpTo(ChunkAlphabet, MaxTextLen)
    /\ ck_max \in ChunkSizes
    /\ ck_result = NoResult

IdleChunk ==
    /\ ck_text = <<>>
    /\ ck_max = 0
    /\ ck_result = NoResult

\* the caller invokes _split_text_to_chunks(text, max_chunk_size)
CallSplit ==
    /\ ~ck_result.done
    /\ ck_result' = [SplitTextToChunks(ck_text, ck_max) EXCEPT !.done = TRUE]
    /\ UNCHANGED <<ck_text, ck_max>>
    /\ UNCHANGED otherThanChunk

(***************************************************************************)
(* ContentCache: core/tts/cache.py TTSCache                                *)
(* A row is [text_hash, audio_path, last_accessed, access_count]; the      *)
(* columns nothing reads back (id, voice_settings, created_at,             *)
(* text_length) are left out, text_hash being UNIQUE.  md5 is taken to be  *)
(* collision-free: a hash is modelled by the value that is hashed.         *)
(***************************************************************************)
None == "None"

\* dict.get(key, default)
DictGet(d, key, default) == IF key \in DOMAIN d THEN d[key] ELSE default

RECURSIVE JoinWords(_, _)
\* ' '.join(words[k:])
JoinWords(words, k) ==
    IF k > Len(words) THEN <<>>
    ELSE IF k = Len(words) THEN words[k]
    ELSE words[k] \o <<" ">> \o JoinWords(words, k + 1)

\* ' '.join(text.split())
NormalizeText(text) == JoinWords(SplitWords(text), 1)

\* _generate_hash over json.dumps(settings): every field counts
GenerateHashAllSettings(text, settings) == << NormalizeText(text), settings >>

\* TTSCache._generate_hash (cache.py 160-188), settings being a dict
GenerateHash(text, settings) ==
    << NormalizeText(text),
       [voice   |-> DictGet(settings, "voice", "alloy"),
        model   |-> DictGet(settings, "model", "tts-1"),
        speed   |-> DictGet(settings, "speed", "1.0"),
        style   |-> DictGet(settings, "style", "neutral"),
        emotion |-> DictGet(settings, "emotion", "")] >>

\* os.path.exists(path)
PathExists(files, path) == files[path] # "absent"

\* SELECT ... FROM cache WHERE text_hash = ?
RowsWithHash(rows, h) == { r \in rows : r.text_hash = h }

\* get_cached_audio without the DELETE of lines 90-91
GetCachedAudioKeepsRow(rows, files, now, text, settings) ==
    LET text_hash == GenerateHash(text, settings)
        found == RowsWithHash(rows, text_hash)
    IN  IF found = {} THEN [ret |-> None, rows |-> rows, stale |-> FALSE]
        ELSE LET result == CHOOSE r \in found : TRUE IN
             IF ~PathExists(files, result.audio_path)
             THEN [ret |-> None, rows |-> rows, stale |-> TRUE]
             ELSE [ret |-> result.audio_path,
                   rows |-> (rows \ found) \cup
                            { [result EXCEPT !.last_accessed = now,
                                             !.access_count = @ + 1] },
                   stale |-> FALSE]

\* TTSCache.get_cached_audio (cache.py 70-113): return value and new table
GetCachedAudio(rows, files, now, text, settings) ==
    LET text_hash == GenerateHash(text, settings)
        found == RowsWithHash(rows, text_hash)
    IN  IF found = {} THEN [ret |-> None, rows |-> rows, stale |-> FALSE]
        ELSE LET result == CHOOSE r \in found : TRUE IN
             IF ~PathExists(files, result.audio_path)
             THEN [ret |-> None, rows |-> rows \ found, stale |-> TRUE]
             ELSE [ret |-> result.audio_path,
                   rows |-> (rows \ found) \cup
                            { [result EXCEPT !.last_accessed = now,
                                             !.access_count = @ + 1] },
                   stale |-> FALSE]

\* _cleanup_cache with ORDER BY last_accessed DESC: the newest rows go
CleanupChoicesNewest(rows, max_size) ==
    LET count == Cardinality(rows) IN
    IF count > max_size
    THEN { E \in SUBSET rows :
             /\ Cardinality(E) = Min(count, Max(count - max_size, 0))
             /\ \A e \in E, r \in rows \ E : e.last_accessed >= r.last_accessed }
    ELSE { {} }

\* TTSCache._cleanup_cache (cache.py 190-211): the sets of rows the DELETE
\* may remove; rows of equal last_accessed come in either order
CleanupChoices(rows, max_size) ==
    LET count == Cardinality(rows) IN
    IF count > max_size
    THEN { E \in SUBSET rows :
             /\ Cardinality(E) = Min(count, Max(count - max_size, 0))
             /\ \A e \in E, r \in rows \ E : e.last_accessed <= r.last_accessed }
    ELSE { {} }

\* cache_audio (cache.py 120-128): the store is accepted
StoreAccepted(files, audio_path) == files[audio_path] = "data"

\* INSERT OR IGNORE in place of INSERT OR REPLACE: an existing row stays
InsertOrIgnore(rows, text_hash, audio_path, now) ==
    IF RowsWithHash(rows, text_hash) # {} THEN rows
    ELSE rows \cup { [text_hash |-> text_hash, audio_path |-> audio_path,
                      last_accessed |-> now, access_count |-> 1] }

\* INSERT OR REPLACE INTO cache ... (cache.py 133-146)
InsertOrReplace(rows, text_hash, audio_path, now) ==
    (rows \ RowsWithHash(rows, text_hash)) \cup
        { [text_hash |-> text_hash, audio_path |-> audio_path,
           last_accessed |-> now, access_count |-> 1] }

(***************************************************************************)
(* core/cache_manager.py TTSCache: the key is the raw text with the whole  *)
(* settings dict; a row is [content_hash, audio_file, last_accessed,       *)
(* access_count]                                                           *)
(***************************************************************************)
\* TTSCache._get_content_hash (cache_manager.py 53-65)
GetContentHash(text, voice_settings) == << text, voice_settings >>

\* TTSCache.get_cached_audio (cache_manager.py 67-117)
CmGetCachedAudio(rows, files, now, text, voice_settings) ==
    LET content_hash == GetContentHash(text, voice_settings)
        found == { r \in rows : r.content_hash = content_hash }
    IN  IF found = {} THEN [ret |-> None, rows |-> rows, stale |-> FALSE]
        ELSE LET row == CHOOSE r \in found : TRUE IN
             IF PathExists(files, row.audio_file)
             THEN [ret |-> row.audio_file,
                   rows |-> (rows \ found) \cup
                            { [row EXCEPT !.last_accessed = now,
                                          !.access_count = @ + 1] },
                   stale |-> FALSE]
             ELSE [ret |-> None, rows |-> rows \ found, stale |-> TRUE]

\* TTSCache.cache_audio (cache_manager.py 119-160): INSERT OR REPLACE
CmInsertOrReplace(rows, text, voice_settings, audio_file, now) ==
    LET content_hash == GetContentHash(text, voice_settings) IN
    { r \in rows : r.content_hash # content_hash } \cup
        { [content_hash |-> content_hash, audio_file |-> audio_file,
           last_accessed |-> now, access_count |-> 1] }

(***************************************************************************)
(* SpecCache: calls of the two caches and changes of the disk              *)
(***************************************************************************)
CacheTexts == { <<"a", " ", "b">>, <<"a", " ", " ", "b">> }

CacheSettings == { [voice |-> "alloy"],
                   [voice |-> "alloy", language |-> "en"],
                   [voice |-> "echo"] }

CachePaths == { "p1.mp3", "p2.mp3" }

CachePairs == CacheTexts \X CacheSettings

NoCall == [op |-> "none", impl |-> "none", text |-> <<>>, settings |-> <<>>,
           path |-> None, ret |-> None, stale |-> FALSE]

InitCache ==
    /\ cache_impl \in {"tts", "cm"}
    /\ cache_rows = {}
    /\ cm_rows = {}
    /\ fs_files \in [CachePaths -> {"absent", "data"}]
    /\ cache_now = 0
    /\ cache_call = NoCall
    /\ cache_live = [q \in CachePairs |-> None]
    /\ cache_stored = {}

IdleCache ==
    /\ cache_impl = "tts"
    /\ cache_rows = {}
    /\ cm_rows = {}
    /\ fs_files = [p \in CachePaths |-> "absent"]
    /\ cache_now = 0
    /\ cache_call = NoCall
    /\ cache_live = [q \in CachePairs |-> None]
    /\ cache_stored = {}

\* the pairs whose entry is one of the rows in `gone`
PairsOfRows(gone) ==
    { q \in CachePairs : \E r \in gone : r.text_hash = GenerateHash(q[1], q[2]) }

\* cache.get_cached_audio(text, settings), one of max_calls calls
GetCachedAudioStep(text, settings, max_calls) ==
    /\ cache_impl = "tts"
    /\ cache_now < max_calls
    /\ LET g == GetCachedAudio(cache_rows, fs_files, cache_now + 1, text, settings)
       IN  /\ cache_rows' = g.rows
           /\ cache_call' = [op |-> "get", impl |-> "tts", text |-> text,
                             settings |-> settings, path |-> None,
                             ret |-> g.ret, stale |-> g.stale]
    /\ cache_now' = cache_now + 1
    /\ UNCHANGED <<cache_impl, cm_rows, fs_files, cache_live, cache_stored>>
    /\ UNCHANGED otherThanCache

\* cache.get_cached_audio(text, settings)
CallGetCachedAudio(text, settings) == GetCachedAudioStep(text, settings, MaxCacheCalls)

\* cache.cache_audio(text, settings, audio_path) of a cache constructed
\* with max_size, one of max_calls calls
CacheAudioStep(text, settings, audio_path, max_size, max_calls) ==
    /\ cache_impl = "tts"
    /\ cache_now < max_calls
    /\ cache_now' = cache_now + 1
    /\ cache_call' = [op |-> "store", impl |-> "tts", text |-> text,
                      settings |-> settings, path |-> audio_path,
                      ret |-> None, stale |-> FALSE]
    /\ IF StoreAccepted(fs_files, audio_path)
       THEN LET text_hash == GenerateHash(text, settings)
                inserted == InsertOrReplace(cache_rows, text_hash, audio_path,
                                            cache_now + 1)
            IN  \E E \in CleanupChoices(inserted, max_size) :
                  /\ cache_rows' = inserted \ E
                  /\ cache_live' =
                       [q \in CachePairs |->
                          IF q \in PairsOfRows(E) THEN None
                          ELSE IF q = <<text, settings>> THEN audio_path
                          ELSE IF GenerateHash(q[1], q[2]) = text_hash THEN None
                          ELSE cache_live[q]]
                  /\ cache_stored' = cache_stored \cup { <<text, settings>> }
       ELSE UNCHANGED <<cache_rows, cache_live, cache_stored>>
    /\ UNCHANGED <<cache_impl, cm_rows, fs_files>>
    /\ UNCHANGED otherThanCache

\* cache.cache_audio(text, settings, audio_path)
CallCacheAudio(text, settings, audio_path) ==
    CacheAudioStep(text, settings, audio_path, CacheMaxSize, MaxCacheCalls)

\* cache.clear_cache(delete_files) (cache.py 257-300)
CallClearCache(delete_files) ==
    /\ cache_impl = "tts"
    /\ cache_now < MaxCacheCalls
    /\ cache_now' = cache_now + 1
    /\ cache_rows' = {}
    /\ fs_files' = [p \in CachePaths |->
                      IF delete_files /\ \E r \in cache_rows : r.audio_path = p
                      THEN "absent" ELSE fs_files[p]]
    /\ cache_call' = [NoCall EXCEPT !.op = "clear", !.impl = "tts"]
    /\ cache_live' = [q \in CachePairs |-> None]
    /\ UNCHANGED <<cache_impl, cm_rows, cache_stored>>
    /\ UNCHANGED otherThanCache

\* cache_manager's cache.get_cached_audio(text, voice_settings)
CallCmGetCachedAudio(text, settings) ==
    /\ cache_impl = "cm"
    /\ cache_now < MaxCacheCalls
    /\ LET g == CmGetCachedAudio(cm_rows, fs_files, cache_now + 1, text, settings)
       IN  /\ cm_rows' = g.rows
           /\ cache_call' = [op |-> "get", impl |-> "cm", text |-> text,
                             settings |-> settings, path |-> None,
                             ret |-> g.ret, stale |-> g.stale]
    /\ cache_now' = cache_now + 1
    /\ UNCHANGED <<cache_impl, cache_rows, fs_files, cache_live, cache_stored>>
    /\ UNCHANGED otherThanCache

\* cache_manager's cache.cache_audio(text, voice_settings, audio_file)
CallCmCacheAudio(text, settings, audio_file) ==
    /\ cache_impl = "cm"
    /\ cache_now < MaxCacheCalls
    /\ cache_now' = cache_now + 1
    /\ cm_rows' = CmInsertOrReplace(cm_rows, text, settings, audio_file,
                                    cache_now + 1)
    /\ cache_call' = [op |-> "store", impl |-> "cm", text |-> text,
                      settings |-> settings, path |-> audio_file,
                      ret |-> "True", stale |-> FALSE]
    /\ UNCHANGED <<cache_impl, cache_rows, fs_files, cache_live, cache_stored>>
    /\ UNCHANGED otherThanCache

\* another process removes an audio file from the disk
FsRemove(path) ==
    /\ fs_files[path] # "absent"
    /\ fs_files' = [fs_files EXCEPT ![path] = "absent"]
    /\ cache_live' = [q \in CachePairs |->
                        IF cache_live[q] = path THEN None ELSE cache_live[q]]
    /\ UNCHANGED <<cache_impl, cache_rows, cm_rows, cache_now, cache_call, cache_stored>>
    /\ UNCHANGED otherThanCache

\* the synthesis step writes an audio file, empty when the export failed
FsWrite(path, content) ==
    /\ fs_files[path] # content
    /\ fs_files' = [fs_files EXCEPT ![path] = content]
    /\ UNCHANGED <<cache_impl, cache_rows, cm_rows, cache_now, cache_call,
                   cache_live, cache_stored>>
    /\ UNCHANGED otherThanCache

(***************************************************************************)
(* SpecEvict: one TTSCache of core/tts/cache.py that holds EvictMaxSize    *)
(* rows, used for stores and lookups of MaxEvictKeys texts                 *)
(***************************************************************************)
EvictTexts == { << ToString(k) >> : k \in 1..MaxEvictKeys }

EvictSettings == [voice |-> "alloy"]

InitEvict ==
    /\ cache_impl = "tts"
    /\ cache_rows = {}
    /\ cm_rows = {}
    /\ fs_files \in [CachePaths -> {"absent", "data"}]
    /\ cache_now = 0
    /\ cache_call = NoCall
    /\ cache_live = [q \in CachePairs |-> None]
    /\ cache_stored = {}

\* cache.get_cached_audio(text, settings)
EvictGetCachedAudio(text) == GetCachedAudioStep(text, EvictSettings, MaxEvictCalls)

\* cache.cache_audio(text, settings, audio_path)
EvictCacheAudio(text, audio_path) ==
    CacheAudioStep(text, EvictSettings, audio_path, EvictMaxSize, MaxEvictCalls)

(***************************************************************************)
(* SpecHits: get_cached_audio of core/tts/cache.py called by several       *)
(* threads on one TTSCache.  The connection is opened with                 *)
(* check_same_thread=False and every call goes through the one             *)
(* self.cursor; a thread can be preempted between its statements:          *)
(*   execute  lines 76-80   cursor.execute(SELECT ...)                     *)
(*   fetch    lines 82-84   cursor.fetchone()                              *)
(*   update   lines 87-102  os.path.exists, UPDATE or DELETE, commit       *)
(***************************************************************************)
HitThreads == 1..MaxHitThreads

HitText == << "1" >>

HitPath == "p1.mp3"

IdleHits ==
    /\ hit_pc = [t \in HitThreads |-> "idle"]
    /\ hit_local = [t \in HitThreads |-> 0]
    /\ hit_cursor = <<>>
    /\ hit_calls = [t \in HitThreads |-> 0]
    /\ hit_hits = 0

\* a new cache, the audio files on the disk
InitHits ==
    /\ cache_impl = "tts"
    /\ cache_rows = {}
    /\ cm_rows = {}
    /\ fs_files = [p \in CachePaths |-> "data"]
    /\ cache_now = 0
    /\ cache_call = NoCall
    /\ cache_live = [q \in CachePairs |-> None]
    /\ cache_stored = {}
    /\ IdleHits

\* cache.cache_audio(text, settings, audio_path): the entry is stored
\* before any lookup
HitsCacheAudio ==
    /\ \A t \in HitThreads : hit_calls[t] = 0
    /\ CacheAudioStep(HitText, EvictSettings, HitPath, EvictMaxSize, 1)

\* SELECT audio_path, last_accessed, access_count FROM cache WHERE ...
SelectRows(rows, text_hash) ==
    IF RowsWithHash(rows, text_hash) = {} THEN <<>>
    ELSE << CHOOSE r \in RowsWithHash(rows, text_hash) : TRUE >>

\* UPDATE cache SET last_accessed = ?, access_count = ? WHERE text_hash = ?
UpdateRow(rows, text_hash, now, access_count) ==
    { IF r.text_hash = text_hash
      THEN [r EXCEPT !.last_accessed = now, !.access_count = access_count]
      ELSE r : r \in rows }

\* lines 76-80: the thread begins a call and runs the SELECT
HitExecute(t) ==
    /\ hit_pc[t] = "idle"
    /\ hit_calls[t] < MaxHitCalls
    /\ cache_stored # {}
    /\ hit_calls' = [hit_calls EXCEPT ![t] = @ + 1]
    /\ hit_cursor' = SelectRows(cache_rows, GenerateHash(HitText, EvictSettings))
    /\ hit_pc' = [hit_pc EXCEPT ![t] = "fetch"]
    /\ UNCHANGED <<hit_local, hit_hits>>
    /\ UNCHANGED cacheVars
    /\ UNCHANGED otherThanHits

\* lines 82-84 and 104-105: fetchone() takes the next row the cursor
\* holds; without a row the call is a miss and returns None
HitFetch(t) ==
    /\ hit_pc[t] = "fetch"
    /\ IF hit_cursor = <<>>
       THEN /\ hit_pc' = [hit_pc EXCEPT ![t] = "idle"]
            /\ UNCHANGED <<hit_local, hit_cursor>>
       ELSE /\ hit_pc' = [hit_pc EXCEPT ![t] = "update"]
            /\ hit_local' = [hit_local EXCEPT ![t] = Head(hit_cursor).access_count]
            /\ hit_cursor' = Tail(hit_cursor)
    /\ UNCHANGED <<hit_calls, hit_hits>>
    /\ UNCHANGED cacheVars
    /\ UNCHANGED otherThanHits

\* lines 87-102: the file is checked, the row updated with the count read
\* plus one (or deleted when the file is gone), the path returned
HitUpdate(t) ==
    /\ hit_pc[t] = "update"
    /\ hit_pc' = [hit_pc EXCEPT ![t] = "idle"]
    /\ hit_cursor' = <<>>
    /\ IF PathExists(fs_files, HitPath)
       THEN /\ cache_rows' = UpdateRow(cache_rows, GenerateHash(HitText, EvictSettings),
                                       cache_now + 1, hit_local[t] + 1)
            /\ hit_hits' = hit_hits + 1
       ELSE /\ cache_rows' = cache_rows \ RowsWithHash(cache_rows,
                                              GenerateHash(HitText, EvictSettings))
            /\ UNCHANGED hit_hits
    /\ cache_now' = cache_now + 1
    /\ UNCHANGED <<hit_local, hit_calls>>
    /\ UNCHANGED <<cache_impl, cm_rows, fs_files, cache_call, cache_live, cache_stored>>
    /\ UNCHANGED otherThanHits

(***************************************************************************)
(* SpecKey: one TTSCache of core/tts/cache.py, stores and lookups under    *)
(* texts that differ in their whitespace and settings dicts that differ    *)
(* in the fields they hold.  A number is written as json.dumps renders     *)
(* it: the int 1 as "1", the float 1.0 as "1.0".                           *)
(***************************************************************************)
KeyTexts ==
    { <<"a", " ", "b">>, <<" ", "a", " ", " ", "b">>, <<"a", "\n", "b", "\t">>,
      <<"a", "b">> }

\* the empty dict
EmptyDict == [k \in {} |-> ""]

KeySettings ==
    { EmptyDict,
      [voice |-> "alloy"],
      [voice |-> "alloy", language |-> "en"],
      [voice |-> "echo"],
      [speed |-> "1"],
      [speed |-> "1.0"],
      [emotion |-> "", style |-> "neutral", model |-> "tts-1"],
      [model |-> "tts-1-hd"] }

\* a new cache, the audio file on the disk
InitKey ==
    /\ cache_impl = "tts"
    /\ cache_rows = {}
    /\ cm_rows = {}
    /\ fs_files = [p \in CachePaths |-> "data"]
    /\ cache_now = 0
    /\ cache_call = NoCall
    /\ cache_live = [q \in CachePairs |-> None]
    /\ cache_stored = {}

\* cache.get_cached_audio(text, settings)
KeyGetCachedAudio(text, settings) == GetCachedAudioStep(text, settings, MaxKeyCalls)

\* cache.cache_audio(text, settings, audio_path)
KeyCacheAudio(text, settings) ==
    CacheAudioStep(text, settings, HitPath, EvictMaxSize, MaxKeyCalls)

(***************************************************************************)
(* ConversionOrchestrator: DocToAudiobook.create_audiobook                 *)
(* (doc2audiobook.py 45-260) with EnhancedTTS.generate_audio               *)
(* (enhanced.py 482-648).  Outcomes of the collaborators (extraction, the  *)
(* synthesis API, decoding/export, bookmarks, combining) are chosen by     *)
(* the environment.                                                        *)
(***************************************************************************)
ChapterEntry(i) == [kind |-> "chapter", index |-> i]
CompleteEntry == [kind |-> "complete", index |-> 0]

\* what detect_chapters can hand over: a non-empty list of chapters with
\* text, or the single whole-document chapter of a blank document
BookChapterLists ==
    { << [blank |-> TRUE] >> } \cup
    { [k \in 1..n |-> [blank |-> FALSE]] : n \in 1..MaxBookChapters }

EmptyLog == [visited |-> <<>>, raised |-> {}, calls |-> <<>>,
             bookmarks |-> "none", combine |-> "none", extract |-> "none",
             combined |-> <<>>, extractions |-> 0]

InitBook ==
    /\ bk_pc = "start"
    /\ bk_chapters \in BookChapterLists
    /\ bk_i = 0
    /\ bk_chunks = 0
    /\ bk_chunk = 0
    /\ bk_retry = 0
    /\ bk_audio = <<>>
    /\ bk_output_files = <<>>
    /\ bk_successful = 0
    /\ bk_result = None
    /\ bk_log = EmptyLog

IdleBook ==
    /\ bk_pc = "idle"
    /\ bk_chapters = <<>>
    /\ bk_i = 0
    /\ bk_chunks = 0
    /\ bk_chunk = 0
    /\ bk_retry = 0
    /\ bk_audio = <<>>
    /\ bk_output_files = <<>>
    /\ bk_successful = 0
    /\ bk_result = None
    /\ bk_log = EmptyLog

\* the failure result with the message left empty
FailedResultSilent(error) ==
    [status |-> "failed", error |-> "", output_files |-> <<>>,
     total_chapters |-> None, successful_chapters |-> None]

\* the structured failure results (lines 158-162 and 256-260)
FailedResult(error) ==
    [status |-> "failed", error |-> error, output_files |-> <<>>,
     total_chapters |-> None, successful_chapters |-> None]

\* line 231 with the comparison loosened to "some chapter succeeded"
ResultStatusAnySuccess(successful_chapters, total_chapters) ==
    IF successful_chapters > 0 THEN "completed" ELSE "partial"

\* line 231
ResultStatus(successful_chapters, total_chapters) ==
    IF successful_chapters = total_chapters THEN "completed" ELSE "partial"

\* lines 240-244 with the metadata of 234-238
ResultDict(output_files, successful_chapters, total_chapters) ==
    [status |-> ResultStatus(successful_chapters, total_chapters),
     error |-> None, output_files |-> output_files,
     total_chapters |-> total_chapters,
     successful_chapters |-> successful_chapters]

\* what lines 62-93 can end with: "ok", or an exception of os.makedirs
\* (line 80, "setup") or of process_document (line 83): the file is missing
\* (document_processor.py 37-38), its suffix is none of the four formats
\* (50-51), or the reader of its format raised (re-raised at 53-55)
ExtractOutcomes == {"ok", "setup", "missing", "unsupported", "unreadable"}

\* str(e) of the exception (line 258).  The two exceptions that
\* DocumentProcessor raises itself carry the f-strings of lines 38 and 51;
\* those of the operating system and of the document readers carry the
\* message their library gives them
ErrorMessage(outcome) ==
    CASE outcome = "missing" -> "File not found: book.txt"
      [] outcome = "unsupported" -> "Unsupported file format: "
      [] outcome = "unreadable" -> "'utf-8' codec can't decode byte 0xff"
      [] OTHER -> "[Errno 13] Permission denied: 'out'"

\* lines 62-93: settings, output directory, process_document and
\* detect_chapters; an exception here reaches the outer handler (249-260)
BookExtract(outcome) ==
    /\ bk_pc = "start"
    /\ bk_log' = [bk_log EXCEPT
                    !.extract = IF outcome = "ok" THEN "ok" ELSE "raised",
                    !.extractions = @ + (IF outcome = "setup" THEN 0 ELSE 1)]
    /\ IF outcome = "ok"
       THEN /\ bk_pc' = "loop"
            /\ bk_i' = 1
            /\ UNCHANGED bk_result
       ELSE /\ bk_pc' = "done"
            /\ bk_result' = FailedResult(ErrorMessage(outcome))
            /\ UNCHANGED bk_i
    /\ UNCHANGED <<bk_chapters, bk_chunks, bk_chunk, bk_retry, bk_audio,
                   bk_output_files, bk_successful>>
    /\ UNCHANGED otherThanBook

\* lines 104-107: "Skip empty chapters"
BookSkipBlank ==
    /\ bk_pc = "loop"
    /\ bk_i <= Len(bk_chapters)
    /\ bk_chapters[bk_i].blank
    /\ bk_i' = bk_i + 1
    /\ bk_log' = [bk_log EXCEPT !.visited = Append(@, bk_i)]
    /\ UNCHANGED <<bk_pc, bk_chapters, bk_chunks, bk_chunk, bk_retry, bk_audio,
                   bk_output_files, bk_successful, bk_result>>
    /\ UNCHANGED otherThanBook

\* the chapter loop without its except clause: the exception reaches the
\* outer handler (249-260)
ChapterRaisedAborts ==
    /\ bk_pc' = "done"
    /\ bk_result' = FailedResult("chapter error")
    /\ bk_chunks' = 0
    /\ bk_chunk' = 0
    /\ bk_retry' = 0
    /\ bk_audio' = <<>>
    /\ UNCHANGED <<bk_i, bk_chapters, bk_output_files, bk_successful>>

\* the except clause of the chapter loop (151-153): log and go on
ChapterRaised ==
    /\ bk_pc' = "loop"
    /\ bk_i' = bk_i + 1
    /\ bk_chunks' = 0
    /\ bk_chunk' = 0
    /\ bk_retry' = 0
    /\ bk_audio' = <<>>
    /\ UNCHANGED <<bk_chapters, bk_output_files, bk_successful, bk_result>>

\* line 116 into generate_audio 482-541: key and text checks, temporary
\* file, _split_text_to_chunks; nchunks chunks come back
BookStartChapter(ok, nchunks) ==
    /\ bk_pc = "loop"
    /\ bk_i <= Len(bk_chapters)
    /\ ~bk_chapters[bk_i].blank
    /\ IF ok
       THEN /\ bk_pc' = "synth"
            /\ bk_chunks' = nchunks
            /\ bk_chunk' = 1
            /\ bk_retry' = 0
            /\ bk_audio' = <<>>
            /\ bk_log' = [bk_log EXCEPT !.visited = Append(@, bk_i),
                                        !.calls = <<>>]
            /\ UNCHANGED <<bk_i, bk_chapters, bk_output_files, bk_successful,
                           bk_result>>
       ELSE /\ nchunks = 1
            /\ ChapterRaised
            /\ bk_log' = [bk_log EXCEPT !.visited = Append(@, bk_i),
                                        !.raised = @ \cup {bk_i},
                                        !.calls = <<>>]
    /\ UNCHANGED otherThanBook

\* line 567 with one attempt more allowed
LastAttemptOneMore(retry) == retry = MaxRetries

\* line 567: "if retry == max_retries - 1: raise"
LastAttempt(retry) == retry = MaxRetries - 1

\* generate_audio 549: get_openai_client raises for the current chunk; no
\* call of the API is made, the handler of 605-607 fails the chapter
BookNoClient ==
    /\ bk_pc = "synth"
    /\ bk_chunk <= bk_chunks
    /\ bk_retry = 0
    /\ ChapterRaised
    /\ bk_log' = [bk_log EXCEPT !.raised = @ \cup {bk_i}]
    /\ UNCHANGED otherThanBook

\* generate_audio 555-607: one call of client.audio.speech.create for the
\* current chunk.  outcome "ok": audio decoded and appended; "error": the
\* call raised; "bad_audio": empty or undecodable content
BookSynthAttempt(outcome) ==
    /\ bk_pc = "synth"
    /\ bk_chunk <= bk_chunks
    /\ LET call == [chapter |-> bk_i, chunk |-> bk_chunk,
                    attempt |-> bk_retry + 1, outcome |-> outcome]
           logged == [bk_log EXCEPT !.calls = Append(@, call)]
       IN  CASE outcome = "ok" ->
                  /\ bk_audio' = Append(bk_audio, bk_chunk)
                  /\ bk_chunk' = bk_chunk + 1
                  /\ bk_retry' = 0
                  /\ bk_pc' = IF bk_chunk = bk_chunks THEN "export" ELSE "synth"
                  /\ bk_log' = logged
                  /\ UNCHANGED <<bk_i, bk_chunks, bk_chapters, bk_output_files,
                                 bk_successful, bk_result>>
             [] outcome = "error" /\ ~LastAttempt(bk_retry) ->
                  /\ bk_retry' = bk_retry + 1
                  /\ bk_log' = logged
                  /\ UNCHANGED <<bk_pc, bk_i, bk_chunks, bk_chunk, bk_audio,
                                 bk_chapters, bk_output_files, bk_successful,
                                 bk_result>>
             [] OTHER ->
                  /\ ChapterRaised
                  /\ bk_log' = [logged EXCEPT !.raised = @ \cup {bk_i}]
    /\ UNCHANGED otherThanBook

\* generate_audio 609-648 and create_audiobook 118-149: export of the
\* combined audio, effects, process_audio, export of chapter_NNN.mp3
BookExportChapter(ok) ==
    /\ bk_pc = "export"
    /\ IF ok
       THEN /\ bk_output_files' = Append(bk_output_files, ChapterEntry(bk_i))
            /\ bk_successful' = bk_successful + 1
            /\ bk_pc' = "loop"
            /\ bk_i' = bk_i + 1
            /\ bk_chunks' = 0
            /\ bk_chunk' = 0
            /\ bk_retry' = 0
            /\ bk_audio' = <<>>
            /\ UNCHANGED <<bk_chapters, bk_result, bk_log>>
       ELSE /\ ChapterRaised
            /\ bk_log' = [bk_log EXCEPT !.raised = @ \cup {bk_i}]
    /\ UNCHANGED otherThanBook

\* lines 155-172: the loop is over
BookAfterLoop ==
    /\ bk_pc = "loop"
    /\ bk_i > Len(bk_chapters)
    /\ IF bk_successful = 0
       THEN /\ bk_pc' = "done"
            /\ bk_result' = FailedResult("No chapters were successfully processed")
       ELSE /\ bk_pc' = "bookmarks"
            /\ UNCHANGED bk_result
    /\ UNCHANGED <<bk_chapters, bk_i, bk_chunks, bk_chunk, bk_retry, bk_audio,
                   bk_output_files, bk_successful, bk_log>>
    /\ UNCHANGED otherThanBook

\* lines 174-182: bookmarks, errors logged only
BookBookmarks(ok) ==
    /\ bk_pc = "bookmarks"
    /\ bk_pc' = "combine"
    /\ bk_log' = [bk_log EXCEPT !.bookmarks = IF ok THEN "ok" ELSE "raised"]
    /\ UNCHANGED <<bk_chapters, bk_i, bk_chunks, bk_chunk, bk_retry, bk_audio,
                   bk_output_files, bk_successful, bk_result>>
    /\ UNCHANGED otherThanBook

DecimalDigits == <<"0", "1", "2", "3", "4", "5", "6", "7", "8", "9">>

RECURSIVE DecimalOf(_)
\* str(n) for n >= 0
DecimalOf(n) ==
    IF n < 10 THEN << DecimalDigits[n + 1] >>
    ELSE DecimalOf(n \div 10) \o << DecimalDigits[(n % 10) + 1] >>

RECURSIVE ZeroPadded(_, _)
\* the format specification 0Nd: zeros on the left up to the width
ZeroPadded(digits, width) ==
    IF Len(digits) >= width THEN digits
    ELSE ZeroPadded(<<"0">> \o digits, width)

\* line 133: f"chapter_{i+1:03d}.mp3", n being i + 1
ChapterFilename(n) ==
    <<"c", "h", "a", "p", "t", "e", "r", "_">> \o ZeroPadded(DecimalOf(n), 3)
        \o <<".", "m", "p", "3">>

\* the name of the combined file (line 204)
CompleteFilename ==
    <<"c", "o", "m", "p", "l", "e", "t", "e", "_", "a", "u", "d", "i", "o",
      "b", "o", "o", "k", ".", "m", "p", "3">>

IsDecimal(c) == \E k \in 1..10 : DecimalDigits[k] = c

RECURSIVE DigitRunEnd(_, _)
\* last index of the run of digits that starts at i (s[i] is a digit)
DigitRunEnd(s, i) ==
    IF i + 1 <= Len(s) /\ IsDecimal(s[i + 1]) THEN DigitRunEnd(s, i + 1) ELSE i

RECURSIVE IntOf(_)
\* int(digits)
IntOf(digits) ==
    IF digits = <<>> THEN 0
    ELSE 10 * IntOf(SubSeq(digits, 1, Len(digits) - 1))
           + (CHOOSE k \in 0..9 : DecimalDigits[k + 1] = digits[Len(digits)])

\* lines 193-199 with the sign of the key turned
GetChapterNumberNegated(name) ==
    LET word == <<"c", "h", "a", "p", "t", "e", "r", "_">>
        hits == { p \in 1..(Len(name) - Len(word)) :
                    /\ SubSeq(name, p, p + Len(word) - 1) = word
                    /\ IsDecimal(name[p + Len(word)]) }
    IN  IF hits = {} THEN 0
        ELSE LET p == CHOOSE q \in hits : \A r \in hits : q <= r
                 a == p + Len(word)
             IN  0 - IntOf(SubSeq(name, a, DigitRunEnd(name, a)))

\* lines 193-199, get_chapter_number on the base name of a path:
\* re.search(r'chapter_(\d+)', name), int(match.group(1)), or 0
GetChapterNumber(name) ==
    LET word == <<"c", "h", "a", "p", "t", "e", "r", "_">>
        hits == { p \in 1..(Len(name) - Len(word)) :
                    /\ SubSeq(name, p, p + Len(word) - 1) = word
                    /\ IsDecimal(name[p + Len(word)]) }
    IN  IF hits = {} THEN 0
        ELSE LET p == CHOOSE q \in hits : \A r \in hits : q <= r
                 a == p + Len(word)
             IN  IntOf(SubSeq(name, a, DigitRunEnd(name, a)))

\* the 'name' of an entry of output_files (lines 141 and 216)
EntryName(entry) ==
    IF entry.kind = "chapter" THEN ChapterFilename(entry.index)
    ELSE CompleteFilename

\* line 190: chapter_paths = [file_info['path'] for file_info in output_files]
ChapterPaths(output_files) ==
    [k \in 1..Len(output_files) |-> EntryName(output_files[k])]

\* one step of the stable sort: name goes behind every name whose key is
\* not larger
InsertByNumber(sorted, name) ==
    LET before == { k \in 1..Len(sorted) :
                      GetChapterNumber(sorted[k]) <= GetChapterNumber(name) }
        n == IF before = {} THEN 0
             ELSE CHOOSE k \in before : \A m \in before : m <= k
    IN  SubSeq(sorted, 1, n) \o << name >> \o SubSeq(sorted, n + 1, Len(sorted))

RECURSIVE SortByChapterNumber(_)
\* line 201: chapter_paths.sort(key=get_chapter_number)
SortByChapterNumber(paths) ==
    IF paths = <<>> THEN <<>>
    ELSE InsertByNumber(SortByChapterNumber(SubSeq(paths, 1, Len(paths) - 1)),
                        paths[Len(paths)])

\* lines 184-228: combine the chapter files, errors logged only.
\* combine_audio_files (audio_processor.py 102-132) reads the files in the
\* order of the list and appends each to the combined audio; when a read or
\* the export raises it returns False and no combined entry is added
BookCombine(ok) ==
    /\ bk_pc = "combine"
    /\ bk_pc' = "finish"
    /\ bk_output_files' = IF ok THEN Append(bk_output_files, CompleteEntry)
                          ELSE bk_output_files
    /\ bk_log' = [bk_log EXCEPT
                    !.combine = IF ok THEN "ok" ELSE "failed",
                    !.combined = IF ok
                                 THEN SortByChapterNumber(ChapterPaths(bk_output_files))
                                 ELSE <<>>]
    /\ UNCHANGED <<bk_chapters, bk_i, bk_chunks, bk_chunk, bk_retry, bk_audio,
                   bk_successful, bk_result>>
    /\ UNCHANGED otherThanBook

\* lines 230-247
BookFinish ==
    /\ bk_pc = "finish"
    /\ bk_pc' = "done"
    /\ bk_result' = ResultDict(bk_output_files, bk_successful, Len(bk_chapters))
    /\ UNCHANGED <<bk_chapters, bk_i, bk_chunks, bk_chunk, bk_retry, bk_audio,
                   bk_output_files, bk_successful, bk_log>>
    /\ UNCHANGED otherThanBook

(***************************************************************************)
(* Job registry: core/job_manager.py JobManager and its users in app.py.   *)
(* Upload k registers two entries: <<"m", k>> made by create_job under a   *)
(* fresh uuid, and <<"u", k>> written by upload_file under the id the      *)
(* client polls.  Both name the same job directory.                        *)
(***************************************************************************)
Uploads == 1..MaxUploads
JobIds == ({"u", "m"} \X Uploads)
UJob(k) == <<"u", k>>
MJob(k) == <<"m", k>>

UpThread(k) == <<"up", k>>
CvThread(k) == <<"cv", k>>
Janitor == <<"jan", 0>>
Maintenance == <<"mnt", 0>>
Caller == <<"api", 0>>
\* job_lock free
NoThread == <<"none", 0>>
Threads == { UpThread(k) : k \in Uploads } \cup { CvThread(k) : k \in Uploads }
              \cup { Janitor, Maintenance, Caller }

\* job_info of upload_file (app.py 395-404): created_at is time.time()
JobInfo == [status |-> "queued", error |-> None, result |-> None,
            progress |-> 0, created_at |-> "float"]

\* job_info of create_job (job_manager.py 92-104): created_at is isoformat()
CreatedJob == [status |-> "created", error |-> None, result |-> None,
               progress |-> 0, created_at |-> "iso"]

\* self.active_jobs[job_id] = job
PutJob(jobs, job_id, job) ==
    [id \in (DOMAIN jobs) \cup {job_id} |-> IF id = job_id THEN job ELSE jobs[id]]

\* del self.active_jobs[job_id]
DelJob(jobs, job_id) ==
    [id \in (DOMAIN jobs) \ {job_id} |-> jobs[id]]

\* the body of update_job_status under the lock (job_manager.py 140-159);
\* error / result are the keyword arguments, None when not passed
UpdateJobStatus(jobs, job_id, status, error, result) ==
    IF job_id \notin DOMAIN jobs THEN jobs
    ELSE LET job == jobs[job_id]
             j1 == [job EXCEPT !.status = status]
             j2 == IF status = "failed"
                   THEN [j1 EXCEPT !.error = IF error = None THEN "Unknown error"
                                             ELSE error]
                   ELSE j1
             j3 == IF result # None THEN [j2 EXCEPT !.result = result] ELSE j2
         IN  [jobs EXCEPT ![job_id] = j3]

\* the body of update_job_progress under the lock (job_manager.py 164-172)
UpdateJobProgress(jobs, job_id, progress) ==
    IF job_id \notin DOMAIN jobs THEN jobs
    ELSE [jobs EXCEPT ![job_id].progress = progress]

\* cleanup_old_jobs 261-276: the jobs the sweep selects.  The date of a
\* job is completed_at or updated_at or created_at, of which the registry
\* only ever holds created_at; a float makes fromisoformat raise TypeError
JobsToClean(jobs, old) ==
    { id \in DOMAIN jobs :
        /\ jobs[id].status \in {"completed", "failed"}
        /\ jobs[id].created_at = "iso"
        /\ id[2] \in old }

RECURSIVE SetToSeq(_)
\* list(self.active_jobs.items()) keeps insertion order; any order is taken
SetToSeq(S) ==
    IF S = {} THEN <<>>
    ELSE LET x == CHOOSE y \in S : TRUE IN << x >> \o SetToSeq(S \ {x})

InitJobs ==
    /\ jm_active_jobs = [id \in {} |-> CreatedJob]
    /\ jm_lock = NoThread
    /\ jm_inside = {}
    /\ jm_pc = [t \in Threads |->
                  IF t[1] = "up" THEN "upload"
                  ELSE IF t[1] = "cv" THEN "not_started"
                  ELSE "idle"]
    /\ jm_dirs = [k \in Uploads |-> FALSE]
    /\ jm_old = {}
    /\ jm_queue = <<>>
    /\ jm_conv = [k \in Uploads |-> None]
    /\ jm_calls = [api |-> 0, sweeps |-> 0]

IdleJobs ==
    /\ jm_active_jobs = [id \in {} |-> CreatedJob]
    /\ jm_lock = NoThread
    /\ jm_inside = {}
    /\ jm_pc = [t \in Threads |-> "off"]
    /\ jm_dirs = [k \in Uploads |-> FALSE]
    /\ jm_old = {}
    /\ jm_queue = <<>>
    /\ jm_conv = [k \in Uploads |-> None]
    /\ jm_calls = [api |-> 0, sweeps |-> 0]

\* positions at which a thread is at `with self.job_lock:`
LockedPositions ==
    { "create_job", "get_job", "set_processing", "set_failed_converter",
      "set_progress", "set_final", "select", "delete", "api_status",
      "api_progress" }

\* `with self.job_lock:` -- blocks until the lock is free
AcquireLock(t) ==
    /\ jm_pc[t] \in LockedPositions
    /\ jm_lock = NoThread
    /\ jm_lock' = t
    /\ UNCHANGED <<jm_active_jobs, jm_inside, jm_pc, jm_dirs, jm_old, jm_queue,
                   jm_conv, jm_calls>>
    /\ UNCHANGED otherThanJobs

\* upload_file 363-411: job directory, uploaded file, job.json
UploadSave(k) ==
    /\ jm_pc[UpThread(k)] = "upload"
    /\ jm_dirs' = [jm_dirs EXCEPT ![k] = TRUE]
    /\ jm_pc' = [jm_pc EXCEPT ![UpThread(k)] = "create_job"]
    /\ UNCHANGED <<jm_active_jobs, jm_lock, jm_inside, jm_old, jm_queue,
                   jm_conv, jm_calls>>
    /\ UNCHANGED otherThanJobs

\* upload_file 418 -> JobManager.create_job 89-109, under the lock
UploadCreateJob(k) ==
    /\ jm_pc[UpThread(k)] = "create_job"
    /\ jm_lock = UpThread(k)
    /\ jm_active_jobs' = PutJob(jm_active_jobs, MJob(k), CreatedJob)
    /\ jm_lock' = NoThread
    /\ jm_pc' = [jm_pc EXCEPT ![UpThread(k)] = "register"]
    /\ UNCHANGED <<jm_inside, jm_dirs, jm_old, jm_queue, jm_conv, jm_calls>>
    /\ UNCHANGED otherThanJobs

\* upload_file 419: job_manager.active_jobs[job_id] = job_info begins,
\* job_lock not taken
UploadRegisterEnter(k) ==
    /\ jm_pc[UpThread(k)] = "register"
    /\ UpThread(k) \notin jm_inside
    /\ jm_inside' = jm_inside \cup { UpThread(k) }
    /\ UNCHANGED <<jm_active_jobs, jm_lock, jm_pc, jm_dirs, jm_old, jm_queue,
                   jm_conv, jm_calls>>
    /\ UNCHANGED otherThanJobs

\* upload_file 419-424: the entry is written, the conversion thread starts
UploadRegister(k) ==
    /\ jm_pc[UpThread(k)] = "register"
    /\ UpThread(k) \in jm_inside
    /\ jm_active_jobs' = PutJob(jm_active_jobs, UJob(k), JobInfo)
    /\ jm_inside' = jm_inside \ { UpThread(k) }
    /\ jm_pc' = [jm_pc EXCEPT ![UpThread(k)] = "done",
                              ![CvThread(k)] = "get_job"]
    /\ UNCHANGED <<jm_lock, jm_dirs, jm_old, jm_queue, jm_conv, jm_calls>>
    /\ UNCHANGED otherThanJobs

\* process_job_thread 488-491 -> get_job 113-135.  Outside a request
\* current_app raises, so a job missing from memory stays None
ConvGetJob(k) ==
    /\ jm_pc[CvThread(k)] = "get_job"
    /\ jm_lock = CvThread(k)
    /\ jm_lock' = NoThread
    /\ jm_pc' = [jm_pc EXCEPT ![CvThread(k)] =
                    IF UJob(k) \notin DOMAIN jm_active_jobs THEN "done"
                    ELSE "set_processing"]
    /\ UNCHANGED <<jm_active_jobs, jm_inside, jm_dirs, jm_old, jm_queue,
                   jm_conv, jm_calls>>
    /\ UNCHANGED otherThanJobs

\* process_job_thread 497: update_job_status(job_id, "processing")
ConvSetProcessing(k) ==
    /\ jm_pc[CvThread(k)] = "set_processing"
    /\ jm_lock = CvThread(k)
    /\ jm_active_jobs' = UpdateJobStatus(jm_active_jobs, UJob(k), "processing",
                                         None, None)
    /\ jm_lock' = NoThread
    /\ jm_pc' = [jm_pc EXCEPT ![CvThread(k)] = "get_converter"]
    /\ UNCHANGED <<jm_inside, jm_dirs, jm_old, jm_queue, jm_conv, jm_calls>>
    /\ UNCHANGED otherThanJobs

\* process_job_thread 499-511: output directory, get_converter
ConvGetConverter(k, ok) ==
    /\ jm_pc[CvThread(k)] = "get_converter"
    /\ jm_dirs' = [jm_dirs EXCEPT ![k] = TRUE]
    /\ jm_pc' = [jm_pc EXCEPT ![CvThread(k)] =
                    IF ok THEN "set_progress" ELSE "set_failed_converter"]
    /\ UNCHANGED <<jm_active_jobs, jm_lock, jm_inside, jm_old, jm_queue,
                   jm_conv, jm_calls>>
    /\ UNCHANGED otherThanJobs

\* process_job_thread 506 (and 562): update_job_status(job_id, "failed", ...)
ConvSetFailedConverter(k) ==
    /\ jm_pc[CvThread(k)] = "set_failed_converter"
    /\ jm_lock = CvThread(k)
    /\ jm_active_jobs' = UpdateJobStatus(jm_active_jobs, UJob(k), "failed",
                                         "converter error", None)
    /\ jm_lock' = NoThread
    /\ jm_pc' = [jm_pc EXCEPT ![CvThread(k)] = "done"]
    /\ UNCHANGED <<jm_inside, jm_dirs, jm_old, jm_queue, jm_conv, jm_calls>>
    /\ UNCHANGED otherThanJobs

\* process_job_thread 516: update_job_progress(job_id, 10, ...)
ConvSetProgress(k) ==
    /\ jm_pc[CvThread(k)] = "set_progress"
    /\ jm_lock = CvThread(k)
    /\ jm_active_jobs' = UpdateJobProgress(jm_active_jobs, UJob(k), 10)
    /\ jm_lock' = NoThread
    /\ jm_pc' = [jm_pc EXCEPT ![CvThread(k)] = "convert"]
    /\ UNCHANGED <<jm_inside, jm_dirs, jm_old, jm_queue, jm_conv, jm_calls>>
    /\ UNCHANGED otherThanJobs

\* process_job_thread 519-531: create_audiobook returns its dictionary
\* ("completed" | "partial" | "failed") or raises ("raised")
ConvCreateAudiobook(k, outcome) ==
    /\ jm_pc[CvThread(k)] = "convert"
    /\ jm_conv' = [jm_conv EXCEPT ![k] = outcome]
    /\ jm_pc' = [jm_pc EXCEPT ![CvThread(k)] = "set_final"]
    /\ UNCHANGED <<jm_active_jobs, jm_lock, jm_inside, jm_dirs, jm_old,
                   jm_queue, jm_calls>>
    /\ UNCHANGED otherThanJobs

\* process_job_thread 533-557: the status the thread writes for a result.
\* A partial result always has output files and successful chapters
FinalStatus(outcome) ==
    IF outcome \in {"completed", "partial"} THEN "completed" ELSE "failed"

\* process_job_thread 535 / 544 / 551 / 557: the last update_job_status
ConvSetFinal(k) ==
    /\ jm_pc[CvThread(k)] = "set_final"
    /\ jm_lock = CvThread(k)
    /\ LET outcome == jm_conv[k]
           status == FinalStatus(outcome)
       IN  jm_active_jobs' =
             UpdateJobStatus(jm_active_jobs, UJob(k), status,
                             IF status = "failed" THEN "conversion error" ELSE None,
                             IF status = "completed" THEN outcome ELSE None)
    /\ jm_lock' = NoThread
    /\ jm_pc' = [jm_pc EXCEPT ![CvThread(k)] = "done"]
    /\ UNCHANGED <<jm_inside, jm_dirs, jm_old, jm_queue, jm_conv, jm_calls>>
    /\ UNCHANGED otherThanJobs

\* _start_cleanup_thread 58-64: the hourly call of cleanup_old_jobs
JanitorStart ==
    /\ jm_pc[Janitor] = "idle"
    /\ jm_calls.sweeps < MaxSweeps
    /\ jm_calls' = [jm_calls EXCEPT !.sweeps = @ + 1]
    /\ jm_pc' = [jm_pc EXCEPT ![Janitor] = "select"]
    /\ UNCHANGED <<jm_active_jobs, jm_lock, jm_inside, jm_dirs, jm_old,
                   jm_queue, jm_conv>>
    /\ UNCHANGED otherThanJobs

\* cleanup_old_jobs 259-276: jobs_to_clean is built under the lock, and the
\* lock is released
JanitorSelect ==
    /\ jm_pc[Janitor] = "select"
    /\ jm_lock = Janitor
    /\ jm_queue' = SetToSeq(JobsToClean(jm_active_jobs, jm_old))
    /\ jm_lock' = NoThread
    /\ jm_pc' = [jm_pc EXCEPT ![Janitor] =
                    IF jm_queue' = <<>> THEN "idle" ELSE "rmtree"]
    /\ UNCHANGED <<jm_active_jobs, jm_inside, jm_dirs, jm_old, jm_conv,
                   jm_calls>>
    /\ UNCHANGED otherThanJobs

\* cleanup_old_jobs 279-292: the job's directory is removed, no lock held;
\* an error of rmtree skips the job (301-302)
JanitorRmtree(ok) ==
    /\ jm_pc[Janitor] = "rmtree"
    /\ IF ok
       THEN /\ jm_dirs' = [jm_dirs EXCEPT ![Head(jm_queue)[2]] = FALSE]
            /\ jm_pc' = [jm_pc EXCEPT ![Janitor] = "delete"]
            /\ UNCHANGED jm_queue
       ELSE /\ jm_dirs[Head(jm_queue)[2]]
            /\ jm_queue' = Tail(jm_queue)
            /\ jm_pc' = [jm_pc EXCEPT ![Janitor] =
                            IF jm_queue' = <<>> THEN "idle" ELSE "rmtree"]
            /\ UNCHANGED jm_dirs
    /\ UNCHANGED <<jm_active_jobs, jm_lock, jm_inside, jm_old, jm_conv,
                   jm_calls>>
    /\ UNCHANGED otherThanJobs

\* cleanup_old_jobs 295-299: the entry is deleted under the lock
JanitorDelete ==
    /\ jm_pc[Janitor] = "delete"
    /\ jm_lock = Janitor
    /\ jm_active_jobs' = DelJob(jm_active_jobs, Head(jm_queue))
    /\ jm_queue' = Tail(jm_queue)
    /\ jm_lock' = NoThread
    /\ jm_pc' = [jm_pc EXCEPT ![Janitor] =
                    IF jm_queue' = <<>> THEN "idle" ELSE "rmtree"]
    /\ UNCHANGED <<jm_inside, jm_dirs, jm_old, jm_conv, jm_calls>>
    /\ UNCHANGED otherThanJobs

\* run_maintenance 386 -> cleanup_temp_files 339: the loop over
\* self.active_jobs.items() begins, job_lock not taken
MaintenanceEnter ==
    /\ jm_pc[Maintenance] = "idle"
    /\ jm_inside' = jm_inside \cup { Maintenance }
    /\ jm_pc' = [jm_pc EXCEPT ![Maintenance] = "iterate"]
    /\ UNCHANGED <<jm_active_jobs, jm_lock, jm_dirs, jm_old, jm_queue,
                   jm_conv, jm_calls>>
    /\ UNCHANGED otherThanJobs

\* cleanup_temp_files 339-357: the loop ends (or RuntimeError when the
\* dictionary changed size, caught at 355)
MaintenanceLeave ==
    /\ jm_pc[Maintenance] = "iterate"
    /\ jm_inside' = jm_inside \ { Maintenance }
    /\ jm_pc' = [jm_pc EXCEPT ![Maintenance] = "done"]
    /\ UNCHANGED <<jm_active_jobs, jm_lock, jm_dirs, jm_old, jm_queue,
                   jm_conv, jm_calls>>
    /\ UNCHANGED otherThanJobs

\* another user of the registry calls update_job_status or
\* update_job_progress (job_manager.py 137, 161)
CallerBegin(op) ==
    /\ jm_pc[Caller] = "idle"
    /\ jm_calls.api < MaxRegistryCalls
    /\ jm_calls' = [jm_calls EXCEPT !.api = @ + 1]
    /\ jm_pc' = [jm_pc EXCEPT ![Caller] = op]
    /\ UNCHANGED <<jm_active_jobs, jm_lock, jm_inside, jm_dirs, jm_old,
                   jm_queue, jm_conv>>
    /\ UNCHANGED otherThanJobs

\* update_job_status 139-159 called for any job and status
CallerUpdateJobStatus(job_id, status) ==
    /\ jm_pc[Caller] = "api_status"
    /\ jm_lock = Caller
    /\ jm_active_jobs' = UpdateJobStatus(jm_active_jobs, job_id, status,
                             IF status = "failed" THEN "abandoned" ELSE None,
                             None)
    /\ jm_lock' = NoThread
    /\ jm_pc' = [jm_pc EXCEPT ![Caller] = "idle"]
    /\ UNCHANGED <<jm_inside, jm_dirs, jm_old, jm_queue, jm_conv, jm_calls>>
    /\ UNCHANGED otherThanJobs

\* update_job_progress 163-172 called for any job
CallerUpdateJobProgress(job_id) ==
    /\ jm_pc[Caller] = "api_progress"
    /\ jm_lock = Caller
    /\ jm_active_jobs' = UpdateJobProgress(jm_active_jobs, job_id, 50)
    /\ jm_lock' = NoThread
    /\ jm_pc' = [jm_pc EXCEPT ![Caller] = "idle"]
    /\ UNCHANGED <<jm_inside, jm_dirs, jm_old, jm_queue, jm_conv, jm_calls>>
    /\ UNCHANGED otherThanJobs

\* cleanup_old_jobs 253: time passes and the jobs of upload k fall behind
\* datetime.now() - timedelta(days)
JobAges(k) ==
    /\ MJob(k) \in DOMAIN jm_active_jobs
    /\ k \notin jm_old
    /\ jm_old' = jm_old \cup {k}
    /\ UNCHANGED <<jm_active_jobs, jm_lock, jm_inside, jm_pc, jm_dirs,
                   jm_queue, jm_conv, jm_calls>>
    /\ UNCHANGED otherThanJobs

JobStatuses == {"processing", "completed", "failed"}
ConvOutcomes == {"completed", "partial", "failed", "raised"}

(***************************************************************************)
(* ChapterDetector: core/chapter_manager.py ChapterManager                 *)
(* Texts are over the alphabet {a, A, ., space, newline} and may hold      *)
(* heading lines 'Chapter 1: A'.  Of the eleven marker patterns of         *)
(* _find_explicit_chapters three can match such a text:                    *)
(* r'Chapter\s+\d+[.:]\s*([^\n]+)', r'^\s*[A-Z]\.\s*([^\n]+)' and           *)
(* r'^\s*[A-Z][A-Z\s]+$'.  The others need a digit at the start of a line, *)
(* one of I V X before a dot, or a literal word (CHAPTER, PART, ...).      *)
(* Positions are 0-based offsets as in Python; s[i + 1] is the character   *)
(* at offset i.                                                            *)
(***************************************************************************)
ChapterAlphabet == {"a", "A", ".", " ", "\n"}

\* the literal of the first marker pattern, and the characters of a
\* heading line besides those of the alphabet
ChapterWord == <<"C", "h", "a", "p", "t", "e", "r">>
HeadingAlphabet == {"C", "h", "p", "t", "e", "r", "1", "2", "3", ":"}

IsUpper(c) == c \in {"A", "C"}
IsLower(c) == c \in {"a", "h", "p", "t", "e", "r"}
IsDigit(c) == c \in {"1", "2", "3"}

\* s[i:i+len(sub)] == sub
HasAt(s, sub, i) ==
    /\ i + Len(sub) <= Len(s)
    /\ \A k \in 1..Len(sub) : s[i + k] = sub[k]

\* the lowest offset >= i at which sub lies within s[:end], or -1
FindFrom(s, sub, i, end) ==
    IF \E j \in i..(end - Len(sub)) : HasAt(s, sub, j)
    THEN CHOOSE j \in i..(end - Len(sub)) :
            /\ HasAt(s, sub, j)
            /\ \A k \in i..(j - 1) : ~HasAt(s, sub, k)
    ELSE 0 - 1

\* '^' under re.MULTILINE: offset i is the start of a line
AtLineStart(s, i) == i = 0 \/ s[i] = "\n"

\* '$' under re.MULTILINE: offset i is the end of the text or before "\n"
AtLineEnd(s, i) == i = Len(s) \/ s[i + 1] = "\n"

RECURSIVE SkipWs(_, _)
\* greedy \s*: the offset after the whitespace run that starts at offset i
SkipWs(s, i) ==
    IF i < Len(s) /\ IsWs(s[i + 1]) THEN SkipWs(s, i + 1) ELSE i

\* greedy [^\n]*: the offset of the next "\n" at or after i, or len(s)
LineEnd(s, i) ==
    IF i >= Len(s) THEN i
    ELSE CHOOSE j \in i..Len(s) :
            /\ j = Len(s) \/ s[j + 1] = "\n"
            /\ \A k \in (i + 1)..j : s[k] # "\n"

RECURSIVE BackToNonNewline(_, _, _)
\* backtracking of \s* before [^\n]+: the largest offset in lo..hi that
\* holds a character other than "\n", or -1
BackToNonNewline(s, lo, hi) ==
    IF hi < lo THEN 0 - 1
    ELSE IF hi < Len(s) /\ s[hi + 1] # "\n" THEN hi
    ELSE BackToNonNewline(s, lo, hi - 1)

\* r'^\s*[A-Z]\.\s*([^\n]+)' tried at offset i: [end |-> -1] or the match
\* with its group 1
MatchLetterDot(s, i) ==
    LET a == SkipWs(s, i)
        g == IF a + 2 <= Len(s) THEN BackToNonNewline(s, a + 2, SkipWs(s, a + 2))
             ELSE 0 - 1
    IN  IF /\ AtLineStart(s, i)
           /\ a + 2 <= Len(s)
           /\ IsUpper(s[a + 1])
           /\ s[a + 2] = "."
           /\ g >= 0
        THEN [start |-> i, end |-> LineEnd(s, g),
              title |-> Strip(Slice(s, g, LineEnd(s, g)))]
        ELSE [start |-> i, end |-> 0 - 1, title |-> <<>>]

RECURSIVE CapsRunEnd(_, _)
\* greedy [A-Z\s]*: the offset after the run that starts at offset i
CapsRunEnd(s, i) ==
    IF i < Len(s) /\ (IsUpper(s[i + 1]) \/ IsWs(s[i + 1]))
    THEN CapsRunEnd(s, i + 1) ELSE i

RECURSIVE BackToLineEnd(_, _, _)
\* backtracking of [A-Z\s]+ before '$': the largest offset in lo..hi at
\* which '$' matches, or -1
BackToLineEnd(s, lo, hi) ==
    IF hi < lo THEN 0 - 1
    ELSE IF AtLineEnd(s, hi) THEN hi
    ELSE BackToLineEnd(s, lo, hi - 1)

\* r'^\s*[A-Z][A-Z\s]+$' tried at offset i; the title is group 0
MatchCapsLine(s, i) ==
    LET a == SkipWs(s, i)
        e == IF a + 1 <= Len(s) THEN BackToLineEnd(s, a + 2, CapsRunEnd(s, a + 1))
             ELSE 0 - 1
    IN  IF /\ AtLineStart(s, i)
           /\ a + 1 <= Len(s)
           /\ IsUpper(s[a + 1])
           /\ e >= 0
        THEN [start |-> i, end |-> e, title |-> Strip(Slice(s, i, e))]
        ELSE [start |-> i, end |-> 0 - 1, title |-> <<>>]

RECURSIVE DigitsEnd(_, _)
\* greedy \d*: the offset after the run of digits that starts at offset i
DigitsEnd(s, i) ==
    IF i < Len(s) /\ IsDigit(s[i + 1]) THEN DigitsEnd(s, i + 1) ELSE i

\* r'Chapter\s+\d+[.:]\s*([^\n]+)' tried at offset i
MatchChapterWord(s, i) ==
    LET a == i + Len(ChapterWord)
        b == SkipWs(s, a)
        c == DigitsEnd(s, b)
        g == IF c + 1 <= Len(s) THEN BackToNonNewline(s, c + 1, SkipWs(s, c + 1))
             ELSE 0 - 1
    IN  IF /\ HasAt(s, ChapterWord, i)
           /\ b > a
           /\ c > b
           /\ c + 1 <= Len(s)
           /\ s[c + 1] \in {".", ":"}
           /\ g >= 0
        THEN [start |-> i, end |-> LineEnd(s, g),
              title |-> Strip(Slice(s, g, LineEnd(s, g)))]
        ELSE [start |-> i, end |-> 0 - 1, title |-> <<>>]

\* the match of pattern p tried at offset i
MatchAt(p, s, i) ==
    IF p = "chapter_word" THEN MatchChapterWord(s, i)
    ELSE IF p = "letter_dot" THEN MatchLetterDot(s, i) ELSE MatchCapsLine(s, i)

\* the first line start at or after offset i, len(s) + 1 if there is none
NextLineStart(s, i) ==
    IF i > Len(s) \/ AtLineStart(s, i) THEN i ELSE LineEnd(s, i) + 1

RECURSIVE FindIter(_, _, _)
\* re.finditer(pattern, text, re.MULTILINE) from offset i on, for the two
\* patterns that begin with '^': the matches left to right, none
\* overlapping the one before; a match is tried at line starts only
FindIter(p, s, i) ==
    IF i > Len(s) THEN <<>>
    ELSE IF MatchAt(p, s, i).end >= 0
         THEN << MatchAt(p, s, i) >> \o FindIter(p, s, NextLineStart(s, MatchAt(p, s, i).end))
         ELSE FindIter(p, s, NextLineStart(s, i + 1))

RECURSIVE FindIterWord(_, _)
\* re.finditer(r'Chapter...', text, re.MULTILINE) from offset i on: a
\* match is tried wherever the word Chapter stands
FindIterWord(s, i) ==
    LET j == FindFrom(s, ChapterWord, i, Len(s)) IN
    IF i > Len(s) \/ j < 0 THEN <<>>
    ELSE IF MatchChapterWord(s, j).end >= 0
         THEN << MatchChapterWord(s, j) >> \o FindIterWord(s, MatchChapterWord(s, j).end)
         ELSE FindIterWord(s, j + 1)

\* all_matches left in the order of the patterns, without line 121
SortByStartSkipped(ms) == ms

\* all_matches.sort(key=lambda x: x['start']): the sort is stable, matches
\* with one start keep their order
SortByStart(ms) ==
    [r \in 1..Len(ms) |->
        ms[CHOOSE k \in 1..Len(ms) :
              Cardinality({ j \in 1..Len(ms) :
                              \/ ms[j].start < ms[k].start
                              \/ ms[j].start = ms[k].start /\ j < k }) = r - 1]]

\* lines 98-121: the matches of all patterns, in pattern order, sorted
AllMatches(s) ==
    SortByStart(FindIterWord(s, 0) \o FindIter("letter_dot", s, 0)
                  \o FindIter("caps_line", s, 0))

RECURSIVE ChaptersOfMatches(_, _, _)
\* lines 124-145: the text between one marker and the next is a chapter;
\* a chapter is [title, content, start] with start the offset of the
\* content in the text
ChaptersOfMatches(s, ms, i) ==
    IF i > Len(ms) THEN <<>>
    ELSE LET start == ms[i].end
             end == IF i < Len(ms) THEN ms[i + 1].start ELSE Len(s)
             raw == Slice(s, Min(start, Len(s)), end)
         IN  (IF Strip(raw) = <<>> THEN <<>>
              ELSE << [title |-> ms[i].title, content |-> Strip(raw)] >>)
                \o ChaptersOfMatches(s, ms, i + 1)

\* _find_explicit_chapters (lines 78-152)
FindExplicitChapters(text) == ChaptersOfMatches(text, AllMatches(text), 1)

\* the offsets s[from:to] that text.strip() keeps of s[start:end]
StrippedSpan(s, start, end) ==
    [from |-> start + LStripIdx(Slice(s, start, end), 1) - 1,
     to |-> start + LStripIdx(Slice(s, start, end), 1) - 1
              + Len(Strip(Slice(s, start, end)))]

RECURSIVE ExplicitSpans(_, _, _)
\* lines 126-144: where in the text the content of each chapter lies
ExplicitSpans(s, ms, i) ==
    IF i > Len(ms) THEN <<>>
    ELSE LET start == Min(ms[i].end, Len(s))
             end == IF i < Len(ms) THEN ms[i + 1].start ELSE Len(s)
         IN  (IF Strip(Slice(s, start, end)) = <<>> THEN <<>>
              ELSE << StrippedSpan(s, start, end) >>)
                \o ExplicitSpans(s, ms, i + 1)

(***************************************************************************)
(* Sizes of _fallback_chapter_detection, scaled to the texts of the model  *)
(* with their order kept: 30 < 50 < 100 < 300 < 500 < 1000 < 20000 <       *)
(* 50000 < 200000 < 500000.  Chapter counts (3, 5, 10, 15, 20, 30) are the *)
(* program's.                                                              *)
(***************************************************************************)
FbExcerptShort == 1      \* 30
FbExcerpt == 2           \* 50
FbTiny == 2              \* 50
FbMinLen == 3            \* 100
FbMargin == 3            \* 100
FbTitleMax == 3          \* 100
FbSpaceWindow == 3       \* 100
FbSentWindow == 4        \* 300
FbParaWindow == 5        \* 500
FbAdvance == 6           \* 1000
FbSmallDoc == 18         \* 20000
FbTier1 == 30            \* 50000
FbPerChapter == 30       \* 50000
FbTier2 == 50            \* 200000
FbLargeDoc == 90         \* 500000
FbLargeMinChapters == 20
FbRetryChapters == 30

CompleteDocument == << "Complete Document" >>

\* the single whole-text chapter
SingleChapter(text) == << [title |-> CompleteDocument, content |-> text] >>

RECURSIVE SumContent(_, _)
\* sum(len(content) for _, content in chapters)
SumContent(chapters, k) ==
    IF k = 0 THEN 0 ELSE SumContent(chapters, k - 1) + Len(chapters[k].content)

\* str.find(sub, start, end): a negative start counts from the end of s
Find(s, sub, start, end) ==
    FindFrom(s, sub,
             IF start < 0 THEN Max(0, start + Len(s)) ELSE start,
             Min(end, Len(s)))

\* lines 419-432: no paragraph break; a sentence end, else a space
SentenceOrSpaceBreak(text, next_pos) ==
    IF Find(text, <<".", " ">>, next_pos - FbSentWindow, next_pos + FbSentWindow) # 0 - 1
    THEN Find(text, <<".", " ">>, next_pos - FbSentWindow, next_pos + FbSentWindow) + 2
    ELSE IF Find(text, <<".", "\n">>, next_pos - FbSentWindow, next_pos + FbSentWindow) # 0 - 1
    THEN Find(text, <<".", "\n">>, next_pos - FbSentWindow, next_pos + FbSentWindow) + 2
    ELSE IF Find(text, << " " >>, next_pos - FbSpaceWindow, next_pos + FbSpaceWindow) # 0 - 1
    THEN Find(text, << " " >>, next_pos - FbSpaceWindow, next_pos + FbSpaceWindow) + 1
    ELSE next_pos

\* lines 413-432: where the chapter that should end at next_pos ends
BreakPoint(text, next_pos) ==
    IF next_pos < Len(text) - FbMargin
    THEN IF Find(text, <<"\n", "\n">>, next_pos - FbParaWindow, next_pos + FbParaWindow) # 0 - 1
         THEN Find(text, <<"\n", "\n">>, next_pos - FbParaWindow, next_pos + FbParaWindow) + 2
         ELSE SentenceOrSpaceBreak(text, next_pos)
    ELSE next_pos

\* lines 435-436
EnsureProgress(text, current_pos, next_pos) ==
    IF next_pos <= current_pos THEN Min(current_pos + FbAdvance, Len(text))
    ELSE next_pos

\* str.isupper(): a cased character, and no lowercase one
StrIsUpper(s) ==
    /\ \E k \in 1..Len(s) : IsUpper(s[k])
    /\ \A k \in 1..Len(s) : ~IsLower(s[k])

\* s.count(sub) > 1 for a non-empty sub: two occurrences of sub in s that
\* do not overlap
CountsTwice(s, sub) ==
    \E i, j \in 0..Len(s) : HasAt(s, sub, i) /\ HasAt(s, sub, j) /\ j >= i + Len(sub)

\* chapter_content.split('\n', 2)[0].strip()
PotentialTitle(content) == Strip(Slice(content, 0, LineEnd(content, 0)))

\* lines 456-463; of the words Chapter, CHAPTER, Part, PART, Section,
\* SECTION only the first can stand in a text of the model
LooksLikeTitle(potential_title) ==
    /\ Len(potential_title) < FbTitleMax
    /\ \/ StrIsUpper(potential_title)
       \/ HasAt(potential_title, ChapterWord, 0)

\* lines 472-476
GenericTitle(chapter_num, potential_title) ==
    IF Len(Strip(Slice(potential_title, 0, Min(FbExcerpt, Len(potential_title))))) > FbExcerptShort
    THEN << "Part ", ToString(chapter_num), ": " >>
           \o Slice(Strip(Slice(potential_title, 0, Min(FbExcerpt, Len(potential_title)))),
                    0, FbExcerptShort)
           \o << "..." >>
    ELSE << "Part ", ToString(chapter_num), ": " >>
           \o Strip(Slice(potential_title, 0, Min(FbExcerpt, Len(potential_title))))

\* lines 451-483: the chapter made of chapter_content, or none if it is
\* empty once a repeated title line is removed
TitledChapter(chapter_num, chapter_content, potential_title) ==
    IF LooksLikeTitle(potential_title)
    THEN IF CountsTwice(chapter_content, potential_title)
         THEN IF Strip(Slice(chapter_content, Len(potential_title), Len(chapter_content))) = <<>>
              THEN <<>>
              ELSE << [title |-> potential_title,
                       content |-> Strip(Slice(chapter_content, Len(potential_title),
                                               Len(chapter_content)))] >>
         ELSE << [title |-> potential_title, content |-> chapter_content] >>
    ELSE IF chapter_content = <<>> THEN <<>>
    ELSE << [title |-> GenericTitle(chapter_num, potential_title),
             content |-> chapter_content] >>

\* lines 446-448: the short last fragment joins the chapter before it
MergeIntoLast(chapters, chapter_content) ==
    IF chapters = <<>> THEN chapters
    ELSE [chapters EXCEPT ![Len(chapters)].content = @ \o <<"\n", "\n">> \o chapter_content]

RECURSIVE FallbackLoop(_, _, _, _, _, _)
FallbackBody(text, max_chapters, target, chapters, current_pos, chapter_num,
             next_pos, chapter_content) ==
    IF Len(chapter_content) < FbTiny /\ chapter_num > 1
          /\ current_pos > Len(text) - FbMargin
    THEN [chapters |-> MergeIntoLast(chapters, chapter_content),
          current_pos |-> current_pos, chapter_num |-> chapter_num]
    ELSE FallbackLoop(text, max_chapters, target,
                      chapters \o TitledChapter(chapter_num, chapter_content,
                                                PotentialTitle(chapter_content)),
                      next_pos, chapter_num + 1)

\* one round of the loop, next_pos known
FallbackRound(text, max_chapters, target, chapters, current_pos, chapter_num, next_pos) ==
    FallbackBody(text, max_chapters, target, chapters, current_pos, chapter_num,
                 next_pos, Strip(Slice(text, current_pos, next_pos)))

\* the while loop of lines 408-487
FallbackLoop(text, max_chapters, target, chapters, current_pos, chapter_num) ==
    IF current_pos < Len(text) /\ Len(chapters) < max_chapters
    THEN FallbackRound(text, max_chapters, target, chapters, current_pos, chapter_num,
                       EnsureProgress(text, current_pos,
                           BreakPoint(text, Min(current_pos + target, Len(text)))))
    ELSE [chapters |-> chapters, current_pos |-> current_pos, chapter_num |-> chapter_num]

\* lines 490-494: what is left of the text is a last chapter
WithRemaining(text, w) ==
    IF w.current_pos < Len(text) /\ Strip(Slice(text, w.current_pos, Len(text))) # <<>>
    THEN w.chapters \o << [title |-> << "Part ", ToString(w.chapter_num), ": Final Section" >>,
                           content |-> Strip(Slice(text, w.current_pos, Len(text)))] >>
    ELSE w.chapters

\* lines 383-396
FallbackMaxChapters(total_chars, max_chapters) ==
    IF total_chars > FbLargeDoc /\ max_chapters < FbLargeMinChapters
    THEN Max(max_chapters, FbLargeMinChapters) ELSE max_chapters

NumChapters(total_chars, max_chapters) ==
    IF total_chars < FbTier1 THEN Min(3, max_chapters)
    ELSE IF total_chars < FbTier2 THEN Min(5, max_chapters)
    ELSE IF total_chars < FbLargeDoc THEN Min(10, max_chapters)
    ELSE Min(max_chapters, Max(15, total_chars \div FbPerChapter))

\* lines 497-524; 'retry' is the result of the recursive call of line 513
FallbackValidate(text, chapters, num_chapters, retry) ==
    IF chapters = <<>> THEN SingleChapter(text)
    ELSE IF 100 * SumContent(chapters, Len(chapters)) < 95 * Len(Strip(text))
    THEN IF Len(text) > FbLargeDoc /\ num_chapters < FbRetryChapters
         THEN retry
         ELSE SingleChapter(text)
    ELSE IF Len(chapters) = 1
    THEN << [title |-> CompleteDocument, content |-> chapters[1].content] >>
    ELSE chapters

\* lines 400-494 for a positive num_chapters; a negative one gives a
\* negative max_chapters and the loop is not entered
FallbackChapters(text, max_chapters, num_chapters) ==
    WithRemaining(text,
        IF num_chapters > 0
        THEN FallbackLoop(text, max_chapters, Len(text) \div num_chapters, <<>>, 0, 1)
        ELSE [chapters |-> <<>>, current_pos |-> 0, chapter_num |-> 1])

\* lines 366-524 with the outcome of the call of line 513 given:
\* [exc, chapters]; num_chapters = 0 raises ZeroDivisionError at line 400
FallbackWith(text, max_chapters, num_chapters, retry) ==
    IF num_chapters = 0 THEN [exc |-> TRUE, chapters |-> <<>>]
    ELSE [exc |-> FALSE,
          chapters |-> FallbackValidate(text,
                           FallbackChapters(text, max_chapters, num_chapters),
                           num_chapters, retry)]

FallbackTry(text, max_chapters, retry) ==
    IF Len(text) < FbMinLen \/ Len(text) < FbSmallDoc
    THEN [exc |-> FALSE, chapters |-> SingleChapter(text)]
    ELSE FallbackWith(text, FallbackMaxChapters(Len(text), max_chapters),
                      NumChapters(Len(text), FallbackMaxChapters(Len(text), max_chapters)),
                      retry)

\* the handler of lines 526-529
FallbackHandler(text, t) == IF t.exc THEN SingleChapter(text) ELSE t.chapters

\* the call of line 513, with max(30, max_chapters) chapters: when it asks
\* for a retry again its arguments are its own, the recursion ends in
\* RecursionError and the handler of the innermost call returns the
\* single chapter, which every call above it returns
FallbackRetry(text, max_chapters) ==
    FallbackHandler(text, FallbackTry(text, Max(FbRetryChapters, max_chapters),
                                      SingleChapter(text)))

\* _fallback_chapter_detection (lines 364-529)
FallbackChapterDetection(text, max_chapters) ==
    FallbackHandler(text, FallbackTry(text, max_chapters,
                                      FallbackRetry(text, max_chapters)))

(***************************************************************************)
(* _detect_semantic_chapters.  Sizes are scaled with their order kept:     *)
(* 10 < 50 < 60 < 100 < 200 < 1000 < 5000 < 20000 < 50000 < 1000000; the    *)
(* limit of 5000 sentences is scaled too.  Sentence boundaries are the     *)
(* choice of spaCy: a set of offsets ('cuts') at which a sentence starts.  *)
(* Scores are kept times 8, which makes every product an integer.          *)
(***************************************************************************)
SemBaseScore == 1        \* 10
SemShortMin == 1         \* 10
SemLengthCap == 5        \* 50
SemShortMax == 6         \* 60
SemTitleMax == 8         \* 100
SemLongMin == 10         \* 200
SemSearchWindow == 10    \* 1000
SemMinLen == 12          \* 5000
SemPerChapter == 18      \* 20000
SemEvenLen == 30         \* 50000
SemSampleLen == 100      \* 1000000
MaxSentences == 2        \* 5000

\* the members of the set S of numbers in ascending order
AscendingSeq(S) ==
    [r \in 1..Cardinality(S) |->
        CHOOSE x \in S : Cardinality({ y \in S : y < x }) = r - 1]

\* the offsets at which spaCy may start a sentence: a word that follows
\* whitespace after a full stop or after a line break
SentenceStarts(s) ==
    { p \in 1..(Len(s) - 1) :
        /\ IsWs(s[p]) /\ ~IsWs(s[p + 1])
        /\ \E q \in 1..p : /\ \A k \in q..p : IsWs(s[k])
                           /\ \/ \E k \in q..p : s[k] = "\n"
                              \/ (q > 1 /\ s[q - 1] = ".") }

\* Span.text: the characters of the sentence without the space that
\* trails its last token
SpanText(s, from, to) ==
    IF to > from /\ s[to] = " " THEN Slice(s, from, to - 1) ELSE Slice(s, from, to)

RECURSIVE SpansFrom(_, _, _)
SpansFrom(s, starts, k) ==
    IF k > Len(starts) THEN <<>>
    ELSE << SpanText(s, starts[k], IF k < Len(starts) THEN starts[k + 1] ELSE Len(s)) >>
           \o SpansFrom(s, starts, k + 1)

\* list(doc.sents) for the boundaries 'cuts'
DocSents(s, cuts) ==
    IF s = <<>> THEN <<>> ELSE SpansFrom(s, << 0 >> \o AscendingSeq(cuts \cap 1..(Len(s) - 1)), 1)

RECURSIVE EveryNth(_, _, _)
\* [sentences[i] for i in range(0, len(sentences), step)]
EveryNth(sentences, i, step) ==
    IF i >= Len(sentences) THEN <<>>
    ELSE << sentences[i + 1] >> \o EveryNth(sentences, i + step, step)

\* lines 190-193
LimitSentences(sentences) ==
    IF Len(sentences) > MaxSentences
    THEN EveryNth(sentences, 0, Len(sentences) \div MaxSentences)
    ELSE sentences

\* sub in s
Contains(s, sub) == FindFrom(s, sub, 0, Len(s)) # 0 - 1

\* line 209, i counted from 1
AtParagraphStart(sentences, i) ==
    \/ i > 1 /\ Contains(sentences[i], <<"\n", "\n">>)
    \/ /\ i > 1
       /\ sentences[i - 1] # <<>>
       /\ sentences[i - 1][Len(sentences[i - 1])] = "\n"

\* str.lower() for one character
Lower(c) == IF c = "A" THEN "a" ELSE IF c = "C" THEN "c" ELSE c

\* line 217: of chapter, part, section, volume, book only the first can
\* stand in a text of the model
HasChapterPhrase(sentence) ==
    Contains([k \in 1..Len(sentence) |-> Lower(sentence[k])],
             <<"c", "h", "a", "p", "t", "e", "r">>)

RomanLower == {"i", "v", "x", "l", "c", "d", "m"}
RomanUpper == {"I", "V", "X", "L", "C", "D", "M"}

RECURSIVE RunEnd(_, _, _)
\* greedy [S]*: the offset after the run of characters of S from offset i
RunEnd(s, i, S) ==
    IF i < Len(s) /\ s[i + 1] \in S THEN RunEnd(s, i + 1, S) ELSE i

\* line 221, r'^\s*(\d+|[ivxlcdm]+|[IVXLCDM]+)\.?\s+\w+': digits or a
\* roman numeral, an optional dot, whitespace, a word character
HasNumbering(sentence) ==
    LET a == SkipWs(sentence, 0)
        b == IF DigitsEnd(sentence, a) > a THEN DigitsEnd(sentence, a)
             ELSE IF RunEnd(sentence, a, RomanLower) > a
                  THEN RunEnd(sentence, a, RomanLower)
             ELSE RunEnd(sentence, a, RomanUpper)
        c == IF b < Len(sentence) /\ sentence[b + 1] = "." THEN b + 1 ELSE b
        d == SkipWs(sentence, c)
    IN  /\ b > a
        /\ d > c
        /\ d < Len(sentence)
        /\ (IsUpper(sentence[d + 1]) \/ IsLower(sentence[d + 1])
              \/ IsDigit(sentence[d + 1]))

\* lines 201-230, times 16: the factors 1.5, 2.5, 1.5 and 0.5 are 3/2,
\* 5/2, 3/2 and 1/2, a factor not applied is 2/2
Score8(sentences, i) ==
    (SemBaseScore + Min(Len(sentences[i]), SemLengthCap))
      * (IF AtParagraphStart(sentences, i) THEN 3 ELSE 2)
      * (IF StrIsUpper(Strip(sentences[i])) THEN 3 ELSE 1)
      * (IF HasChapterPhrase(sentences[i]) THEN 3 ELSE 1)
      * (IF HasNumbering(sentences[i]) THEN 5 ELSE 2)
      * (IF SemShortMin < Len(Strip(sentences[i])) /\ Len(Strip(sentences[i])) < SemShortMax
         THEN 3 ELSE 2)
      * (IF Len(Strip(sentences[i])) > SemLongMin THEN 1 ELSE 2)

Scores(sentences) == [i \in 1..Len(sentences) |-> Score8(sentences, i)]

RECURSIVE MaxOf(_, _)
MaxOf(scores, k) == IF k = 0 THEN 0 ELSE Max(scores[k], MaxOf(scores, k - 1))

RECURSIVE SumOf(_, _)
SumOf(scores, k) == IF k = 0 THEN 0 ELSE scores[k] + SumOf(scores, k - 1)

\* lines 242-245: score > max(scores) * 0.7
HighStarts(scores, top) ==
    AscendingSeq({ i \in 1..Len(scores) : 10 * scores[i] > 7 * top })

\* lines 249-256: local peaks well above the average, not yet a start
PeakStarts(scores, total, high) ==
    AscendingSeq({ i \in 2..(Len(scores) - 1) :
                     /\ 10 * scores[i] > 13 * scores[i - 1]
                     /\ 10 * scores[i] > 13 * scores[i + 1]
                     /\ 2 * Len(scores) * scores[i] > 3 * total
                     /\ \A k \in 1..Len(high) : high[k] # i })

\* lines 248-256
WithPeaks(scores, max_chapters, high) ==
    IF 2 * Len(high) < max_chapters
    THEN high \o PeakStarts(scores, SumOf(scores, Len(scores)), high)
    ELSE high

RECURSIVE RangeFrom(_, _, _)
\* range(i, n, step) for a positive step, counted from 1
RangeFrom(i, n, step) ==
    IF i >= n THEN <<>> ELSE << i + 1 >> \o RangeFrom(i + step, n, step)

\* lines 262-264 for chapter_count chapters: [exc, starts]
EvenStarts(n, chapter_count) ==
    IF chapter_count = 0 THEN [exc |-> TRUE, starts |-> <<>>]
    ELSE IF chapter_count < 0 THEN [exc |-> FALSE, starts |-> <<>>]
    ELSE IF n \div chapter_count = 0 THEN [exc |-> TRUE, starts |-> <<>>]
    ELSE [exc |-> FALSE, starts |-> RangeFrom(0, n, n \div chapter_count)]

\* lines 259-264
WithEvenFallback(n, text_len, max_chapters, starts) ==
    IF Len(starts) < 3 /\ text_len > SemEvenLen
    THEN EvenStarts(n, Min(max_chapters, Max(3, text_len \div SemPerChapter)))
    ELSE [exc |-> FALSE, starts |-> starts]

\* the place of starts[k] in sorted(starts, key=scores, reverse=True)
RankByScore(scores, starts, k) ==
    Cardinality({ j \in 1..Len(starts) :
                    \/ scores[starts[j]] > scores[starts[k]]
                    \/ scores[starts[j]] = scores[starts[k]] /\ j < k })

\* lines 267-273: the max_chapters best starts, then by position
LimitStarts(scores, starts, max_chapters) ==
    IF Len(starts) > max_chapters
    THEN AscendingSeq({ starts[k] : k \in { k \in 1..Len(starts) :
                          RankByScore(scores, starts, k) <
                            (IF max_chapters >= 0 THEN max_chapters
                             ELSE Max(0, Len(starts) + max_chapters)) } })
    ELSE AscendingSeq({ starts[k] : k \in 1..Len(starts) })

\* lines 238-273: [exc, starts]
ChapterStartsOf(scores, text_len, max_chapters, e) ==
    IF e.exc THEN e
    ELSE [exc |-> FALSE, starts |-> LimitStarts(scores, e.starts, max_chapters)]

ChapterStarts(scores, text_len, max_chapters) ==
    ChapterStartsOf(scores, text_len, max_chapters,
        WithEvenFallback(Len(scores), text_len, max_chapters,
            WithPeaks(scores, max_chapters, HighStarts(scores, MaxOf(scores, Len(scores))))))

RECURSIVE JoinSpans(_, _, _)
\* ' '.join(s.text for s in sentences[from:to]), from counted from 1
JoinSpans(sentences, from, to) ==
    IF from >= to THEN <<>>
    ELSE IF from + 1 = to THEN sentences[from]
    ELSE sentences[from] \o << " " >> \o JoinSpans(sentences, from + 1, to)

\* lines 339-343
SemanticTitle(i, title) ==
    IF Len(title) > SemTitleMax THEN << "Chapter ", ToString(i) >> ELSE title

RECURSIVE SemanticChaptersFrom(_, _, _)
\* lines 333-350
SemanticChaptersFrom(sentences, starts, i) ==
    IF i > Len(starts) THEN <<>>
    ELSE (IF Strip(JoinSpans(sentences, starts[i],
                     IF i < Len(starts) THEN starts[i + 1] ELSE Len(sentences) + 1)) = <<>>
          THEN <<>>
          ELSE << [title |-> SemanticTitle(i, Strip(sentences[starts[i]])),
                   content |-> JoinSpans(sentences, starts[i],
                       IF i < Len(starts) THEN starts[i + 1] ELSE Len(sentences) + 1)] >>)
           \o SemanticChaptersFrom(sentences, starts, i + 1)

RECURSIVE SemanticSpans(_, _, _, _)
\* lines 333-350: where in the text the sentences of each chapter lie,
\* from the first character of its first sentence to the last character
\* of its last one; offsets[k] is the offset of sentence k
SemanticSpans(sentences, offsets, starts, i) ==
    IF i > Len(starts) THEN <<>>
    ELSE LET end == IF i < Len(starts) THEN starts[i + 1] ELSE Len(sentences) + 1
         IN  (IF Strip(JoinSpans(sentences, starts[i], end)) = <<>> THEN <<>>
              ELSE << [from |-> offsets[starts[i]],
                       to |-> offsets[end - 1] + Len(sentences[end - 1])] >>)
                \o SemanticSpans(sentences, offsets, starts, i + 1)

\* lines 352-358
KeepIfCovering(chapters, processed_len) ==
    IF 10 * SumContent(chapters, Len(chapters)) < 9 * processed_len THEN <<>> ELSE chapters

\* lines 168-176: beginning, middle and end of a very large text
TextToProcess(text) ==
    IF Len(text) > SemSampleLen
    THEN Slice(text, 0, ((3 * Len(text)) \div 10) \div 3)
           \o Slice(text, Max(0, Len(text) \div 2 - ((3 * Len(text)) \div 10) \div 6),
                    Min(Len(text), Max(0, Len(text) \div 2 - ((3 * Len(text)) \div 10) \div 6)
                                     + ((3 * Len(text)) \div 10) \div 3))
           \o Slice(text, Max(0, Len(text) + ((0 - ((3 * Len(text)) \div 10)) \div 3)), Len(text))
    ELSE text

\* lines 296-308 for the window search_start..search_end
MappedBreak(text, full_text_pos, search_start, search_end) ==
    IF Find(text, <<"\n", "\n">>, search_start, search_end) # 0 - 1
    THEN Find(text, <<"\n", "\n">>, search_start, search_end) + 2
    ELSE IF Find(text, <<".", " ">>, search_start, search_end) # 0 - 1
    THEN Find(text, <<".", " ">>, search_start, search_end) + 2
    ELSE IF Find(text, <<".", "\n">>, search_start, search_end) # 0 - 1
    THEN Find(text, <<".", "\n">>, search_start, search_end) + 2
    ELSE full_text_pos

\* lines 286-308: the offset in the full text for sentence pos (from 0)
\* of n sentences
MappedPosition(text, pos, n) ==
    MappedBreak(text, (pos * Len(text)) \div n,
                Max(0, (pos * Len(text)) \div n - SemSearchWindow \div 2),
                Min(Len(text), (pos * Len(text)) \div n + SemSearchWindow \div 2))

RECURSIVE InsertSorted(_, _)
InsertSorted(sorted, x) ==
    IF sorted = <<>> THEN << x >>
    ELSE IF Head(sorted) <= x THEN << Head(sorted) >> \o InsertSorted(Tail(sorted), x)
    ELSE << x >> \o sorted

RECURSIVE MappedPositions(_, _, _, _)
\* lines 282-312: mapped_positions, sorted
MappedPositions(text, starts, n, k) ==
    IF k = 0 THEN <<>>
    ELSE InsertSorted(MappedPositions(text, starts, n, k - 1),
                      MappedPosition(text, starts[k] - 1, n))

RECURSIVE MappedChapters(_, _, _)
\* lines 314-330
MappedChapters(text, positions, i) ==
    IF i > Len(positions) THEN <<>>
    ELSE (IF Strip(Slice(text, positions[i],
                         IF i < Len(positions) THEN positions[i + 1] ELSE Len(text))) = <<>>
          THEN <<>>
          ELSE << [title |-> SemanticTitle(i, PotentialTitle(Strip(Slice(text, positions[i],
                                IF i < Len(positions) THEN positions[i + 1] ELSE Len(text))))),
                   content |-> Strip(Slice(text, positions[i],
                                IF i < Len(positions) THEN positions[i + 1] ELSE Len(text)))] >>)
           \o MappedChapters(text, positions, i + 1)

RECURSIVE MappedSpans(_, _, _)
\* lines 314-330: where in the text the content of each chapter lies
MappedSpans(text, positions, i) ==
    IF i > Len(positions) THEN <<>>
    ELSE LET end == IF i < Len(positions) THEN positions[i + 1] ELSE Len(text)
         IN  (IF Strip(Slice(text, positions[i], end)) = <<>> THEN <<>>
              ELSE << StrippedSpan(text, positions[i], end) >>)
                \o MappedSpans(text, positions, i + 1)

\* lines 277-358 once chapter_starts is known: [exc, chapters]
SemanticChaptersOf(text, sentences, cs) ==
    IF cs.exc THEN [exc |-> TRUE, chapters |-> <<>>]
    ELSE IF Len(text) > SemSampleLen
    THEN [exc |-> FALSE,
          chapters |-> MappedChapters(text,
                           MappedPositions(text, cs.starts, Len(sentences), Len(cs.starts)), 1)]
    ELSE [exc |-> FALSE,
          chapters |-> KeepIfCovering(SemanticChaptersFrom(sentences, cs.starts, 1), Len(text))]

\* lines 195-358 for the sentences spaCy gave
SemanticFromSentences(text, max_chapters, sentences) ==
    IF sentences = <<>> THEN [exc |-> FALSE, chapters |-> <<>>]
    ELSE SemanticChaptersOf(text, sentences,
                            ChapterStarts(Scores(sentences), Len(text), max_chapters))

\* lines 156-358: [exc, chapters]; nlp is what spaCy does with the text:
\* it raises, or it cuts the text into sentences
SemanticTry(text, max_chapters, nlp) ==
    IF Len(text) < SemMinLen THEN [exc |-> FALSE, chapters |-> <<>>]
    ELSE IF ~nlp.ok THEN [exc |-> TRUE, chapters |-> <<>>]
    ELSE SemanticFromSentences(text, max_chapters,
                               LimitSentences(DocSents(TextToProcess(text), nlp.cuts)))

\* the handler of lines 360-362
SemanticHandler(t) == IF t.exc THEN <<>> ELSE t.chapters

\* _detect_semantic_chapters (lines 154-362)
DetectSemanticChapters(text, max_chapters, nlp) ==
    SemanticHandler(SemanticTry(text, max_chapters, nlp))

(***************************************************************************)
(* detect_chapters (lines 18-76).  The result records, next to the         *)
(* chapters, the strategy they come from ('via') and the strategies that   *)
(* raised on the way ('errors').  No statement of detect_chapters itself   *)
(* and none of _find_explicit_chapters raises for a string.                *)
(***************************************************************************)
DetectMinLen == 3        \* 100

\* the strategies among the two that raised
ErrorsOf(sem_exc, fb_exc) ==
    (IF sem_exc THEN {"semantic"} ELSE {}) \cup (IF fb_exc THEN {"fallback"} ELSE {})

\* lines 51-70 without the check of line 60: the chapters are returned
\* whatever they hold
CoverageGateKeepsAll(text, chapters, via, errors) ==
    IF chapters = <<>>
    THEN [done |-> TRUE, raised |-> FALSE, chapters |-> SingleChapter(text),
          via |-> "none", errors |-> errors]
    ELSE [done |-> TRUE, raised |-> FALSE, chapters |-> chapters,
          via |-> via, errors |-> errors]

\* lines 51-70: chapters that hold less than 90% of the text give way to
\* the single chapter
CoverageGate(text, chapters, via, errors) ==
    IF chapters = <<>>
    THEN [done |-> TRUE, raised |-> FALSE, chapters |-> SingleChapter(text),
          via |-> "none", errors |-> errors]
    ELSE IF 10 * SumContent(chapters, Len(chapters)) < 9 * Len(Strip(text))
    THEN [done |-> TRUE, raised |-> FALSE, chapters |-> SingleChapter(text),
          via |-> "gate", errors |-> errors]
    ELSE [done |-> TRUE, raised |-> FALSE, chapters |-> chapters,
          via |-> via, errors |-> errors]

\* line 48 and what follows it
AfterFallback(text, sem_exc, fb) ==
    CoverageGate(text, FallbackHandler(text, fb), "fallback", ErrorsOf(sem_exc, fb.exc))

\* lines 46-48
TryFallback(text, max_chapters, sem) ==
    IF SemanticHandler(sem) # <<>>
    THEN CoverageGate(text, SemanticHandler(sem), "semantic", {})
    ELSE AfterFallback(text, sem.exc,
                       FallbackTry(text, max_chapters, FallbackRetry(text, max_chapters)))

\* lines 41-43
TrySemantic(text, max_chapters, nlp, explicit) ==
    IF explicit # <<>> THEN CoverageGate(text, explicit, "explicit", {})
    ELSE TryFallback(text, max_chapters, SemanticTry(text, max_chapters, nlp))

DetectChapters(text, max_chapters, nlp) ==
    IF text = <<>> \/ Len(Strip(text)) < DetectMinLen
    THEN [done |-> TRUE, raised |-> FALSE, chapters |-> SingleChapter(text),
          via |-> "short", errors |-> {}]
    ELSE TrySemantic(text, max_chapters, nlp, FindExplicitChapters(text))

\* the offsets of list(doc.sents) for the boundaries 'cuts'
SentenceOffsets(s, cuts) == << 0 >> \o AscendingSeq(cuts \cap 1..(Len(s) - 1))

\* where the chapters of the semantic strategy lie in the text
SemanticSpansOf(text, max_chapters, nlp) ==
    LET sentences == LimitSentences(DocSents(TextToProcess(text), nlp.cuts))
        offsets == LimitSentences(SentenceOffsets(TextToProcess(text), nlp.cuts))
        cs == ChapterStarts(Scores(sentences), Len(text), max_chapters)
    IN  IF Len(text) > SemSampleLen
        THEN MappedSpans(text, MappedPositions(text, cs.starts, Len(sentences),
                                               Len(cs.starts)), 1)
        ELSE SemanticSpans(sentences, offsets, cs.starts, 1)

\* where the chapters returned by strategy via lie in the text; the
\* fallback and the single chapter are not followed
ChapterSpans(text, max_chapters, nlp, via) ==
    IF via = "explicit" THEN ExplicitSpans(text, AllMatches(text), 1)
    ELSE IF via = "semantic" THEN SemanticSpansOf(text, max_chapters, nlp)
    ELSE <<>>

(***************************************************************************)
(* The texts handed to detect_chapters: up to MaxSegments pieces           *)
(***************************************************************************)
\* a long run of text without a break; a sentence; a paragraph break; a
\* heading 'A.a' and a heading in capitals, each on a line of its own
Filler == [i \in 1..40 |-> "a"]

Segments ==
    { Filler,
      <<"a", "a", "a", "a", ".", " ">>,
      <<"\n", "\n">>,
      <<"\n", "A", ".", "a", "\n">>,
      <<"\n", "A", "A", "\n">> }

RECURSIVE TextsOf(_)
\* the texts of exactly n pieces
TextsOf(n) ==
    IF n = 0 THEN { <<>> }
    ELSE { t \o s : t \in TextsOf(n - 1), s \in Segments }

\* the heading line 'Chapter n: AA..A' with n capitals as its title
HeadingTitle(n) == [k \in 1..n |-> "A"]
Heading(n) ==
    ChapterWord \o <<" ", ToString(n), ":", " ">> \o HeadingTitle(n) \o <<"\n">>

\* the bodies under a heading: a sentence, a run of 40 and a run of 160
MarkedBodies ==
    { <<"a", "a", "a", "a", ".">>, Filler, [i \in 1..160 |-> "a"] }

\* what a heading line may begin with: nothing, or the numbering 'A. ',
\* which makes the line a match of r'^\s*[A-Z]\.\s*([^\n]+)' as well
MarkedPrefixes == { <<>>, <<"A", ".", " ">> }

RECURSIVE MarkedText(_, _, _)
\* heading 1, its body, ..., heading k, its body
MarkedText(prefix, bodies, k) ==
    IF k = 0 THEN <<>>
    ELSE MarkedText(prefix, bodies, k - 1)
           \o prefix \o Heading(k) \o bodies[k] \o <<"\n">>

\* the texts made of 1..MaxMarkers headings 'Chapter n: title', each
\* followed by a body
MarkedTexts ==
    UNION { { MarkedText(prefix, bodies, k) :
                prefix \in MarkedPrefixes, bodies \in [1..k -> MarkedBodies] } :
            k \in 1..MaxMarkers }

ChapterTexts == UNION { TextsOf(n) : n \in 0..MaxSegments } \cup MarkedTexts

ChapterMaxes == {0 - 1, 0, 1, 2, 30}

\* what spaCy may do with the text
NlpOutcomes(text) ==
    { [ok |-> FALSE, cuts |-> {}] }
      \cup { [ok |-> TRUE, cuts |-> c] : c \in SUBSET SentenceStarts(TextToProcess(text)) }

\* lines 33-48: the strategies detect_chapters has called, in order
StrategiesTried(text, max_chapters, nlp) ==
    IF text = <<>> \/ Len(Strip(text)) < DetectMinLen THEN <<>>
    ELSE IF FindExplicitChapters(text) # <<>> THEN << "explicit" >>
    ELSE IF SemanticHandler(SemanticTry(text, max_chapters, nlp)) # <<>>
    THEN << "explicit", "semantic" >>
    ELSE << "explicit", "semantic", "fallback" >>

\* lines 189-195: the number of sentences the semantic strategy goes on to
\* score, 0 when it is not called or ends before the tokenizer has run
ScoredSentences(text, max_chapters, nlp) ==
    IF /\ Len(StrategiesTried(text, max_chapters, nlp)) >= 2
       /\ Len(text) >= SemMinLen
       /\ nlp.ok
    THEN Len(LimitSentences(DocSents(TextToProcess(text), nlp.cuts)))
    ELSE 0

NoChapters ==
    [done |-> FALSE, raised |-> FALSE, chapters |-> <<>>, via |-> "none", errors |-> {},
     spans |-> <<>>, tried |-> <<>>, scored |-> 0]

\* the result of detect_chapters with the history of where its chapters
\* lie in the text and of the strategies that were called
WithSpans(r, text, max_chapters, nlp) ==
    [done |-> r.done, raised |-> r.raised, chapters |-> r.chapters, via |-> r.via,
     errors |-> r.errors, spans |-> ChapterSpans(text, max_chapters, nlp, r.via),
     tried |-> StrategiesTried(text, max_chapters, nlp),
     scored |-> ScoredSentences(text, max_chapters, nlp)]

InitChapters ==
    /\ ch_text \in ChapterTexts
    /\ ch_max \in ChapterMaxes
    /\ ch_result = NoChapters

IdleChapters ==
    /\ ch_text = <<>>
    /\ ch_max = 0
    /\ ch_result = NoChapters

\* one call of detect_chapters(text, max_chapters)
CallDetect(nlp) ==
    /\ ~ch_result.done
    /\ ch_result' = WithSpans(DetectChapters(ch_text, ch_max, nlp), ch_text, ch_max, nlp)
    /\ UNCHANGED <<ch_text, ch_max>>
    /\ UNCHANGED otherThanChapters

(***************************************************************************)
(* SpecFallback: _fallback_chapter_detection with the sizes of the source. *)
(* The text is left abstract: it is its length, it begins and ends with a  *)
(* character that is not whitespace, it has no title lines, and every      *)
(* chapter that ends inside the text ends with a run of whitespace of one  *)
(* given length, which strip() removes.  Where text.find lands inside its  *)
(* window is the choice of the text: the offset of the break point from    *)
(* the position aimed at.                                                  *)
(***************************************************************************)
MinChars == 100           \* line 370
SmallDocChars == 20000    \* line 378
LargeDocChars == 500000   \* lines 383, 393, 511
Tier1Chars == 50000       \* line 389
Tier2Chars == 200000      \* line 391
PerChapterChars == 50000  \* line 396
MarginChars == 100        \* lines 413, 443
TinyChars == 50           \* line 443
AdvanceChars == 1000      \* line 436

\* lines 415-432: text.find('\n\n', next_pos - 500, next_pos + 500) + 2 at
\* its two ends, and no break point found
BreakOffsets == {0 - 498, 0, 500}

\* len(text): the ends of the size tiers, the 600,000 characters of the
\* large-document scenario, and texts of 20 and of 30 times 50,000
\* characters
FallbackLengths ==
    { 99, 100, 19999, 20000, 49999, 50000, 199999, 200000, 499999, 500000,
      500001, 600000, 1000000, 1500000 }

\* max_chapters
FallbackMaxes == { 0 - 1, 0, 1, 2, 3, 4, 5, 9, 10, 14, 15, 19, 20, 30, 31 }

\* the whitespace at the end of a chapter: none, a paragraph break, and
\* blank space of 4,000 characters
WhitespaceRuns == { 0, 2, 4000 }

NoLoop == [num_chapters |-> 0, target |-> 0, current_pos |-> 0, count |-> 0,
           chapter_num |-> 1, total |-> 0]

NoFallbackResult == [kind |-> None, count |-> 0, total |-> 0]

IdleFallback ==
    /\ fb_args = [len |-> 0, max_chapters |-> 0, first_max |-> 0, ws |-> 0]
    /\ fb_pc = "idle"
    /\ fb_loop = NoLoop
    /\ fb_pass = 0
    /\ fb_result = NoFallbackResult

InitFallback ==
    /\ \E n \in FallbackLengths, m \in FallbackMaxes, w \in WhitespaceRuns :
          fb_args = [len |-> n, max_chapters |-> m, first_max |-> m, ws |-> w]
    /\ fb_pc = "call"
    /\ fb_loop = NoLoop
    /\ fb_pass = 1
    /\ fb_result = NoFallbackResult

\* [("Complete Document", text)]
WholeText(len) == [kind |-> "single", count |-> 1, total |-> len]

\* lines 383-385
RaisedMaxChapters(total_chars, max_chapters) ==
    IF total_chars > LargeDocChars /\ max_chapters < 20
    THEN Max(max_chapters, 20) ELSE max_chapters

\* line 396 with max(14, ...) in place of max(15, ...)
LargeDocChaptersFrom14(total_chars, max_chapters) ==
    Min(max_chapters, Max(14, total_chars \div PerChapterChars))

\* line 396
LargeDocChapters(total_chars, max_chapters) ==
    Min(max_chapters, Max(15, total_chars \div PerChapterChars))

\* lines 389-396
TargetChapters(total_chars, max_chapters) ==
    IF total_chars < Tier1Chars THEN Min(3, max_chapters)
    ELSE IF total_chars < Tier2Chars THEN Min(5, max_chapters)
    ELSE IF total_chars < LargeDocChars THEN Min(10, max_chapters)
    ELSE LargeDocChapters(total_chars, max_chapters)

\* a // b of Python for b # 0: the floor, also for a negative b
FloorDiv(a, b) == IF b > 0 THEN a \div b ELSE (0 - a) \div (0 - b)

\* lines 366-405: the call up to the loop
FbEnter ==
    /\ fb_pc = "call"
    /\ LET total_chars == fb_args.len
           max_chapters == RaisedMaxChapters(total_chars, fb_args.max_chapters)
           num_chapters == TargetChapters(total_chars, max_chapters)
       IN  IF total_chars < MinChars \/ total_chars < SmallDocChars
           THEN /\ fb_result' = WholeText(total_chars)
                /\ fb_pc' = "done"
                /\ UNCHANGED <<fb_args, fb_loop>>
           ELSE IF num_chapters = 0
           THEN \* ZeroDivisionError at line 400, handler of lines 526-529
                /\ fb_result' = WholeText(total_chars)
                /\ fb_pc' = "done"
                /\ fb_args' = [fb_args EXCEPT !.max_chapters = max_chapters]
                /\ fb_loop' = [NoLoop EXCEPT !.num_chapters = num_chapters]
           ELSE /\ fb_args' = [fb_args EXCEPT !.max_chapters = max_chapters]
                /\ fb_loop' = [NoLoop EXCEPT
                                 !.num_chapters = num_chapters,
                                 !.target = FloorDiv(total_chars, num_chapters)]
                /\ fb_pc' = "loop"
                /\ UNCHANGED fb_result
    /\ UNCHANGED fb_pass
    /\ UNCHANGED otherThanFallback

\* lines 410-436: where the chapter that begins at current_pos ends
NextPos(len, current_pos, target, offset) ==
    LET aimed == Min(current_pos + target, len)
        found == IF aimed < len - MarginChars THEN aimed + offset ELSE aimed
    IN  IF found <= current_pos THEN Min(current_pos + AdvanceChars, len)
        ELSE found

\* len(text[current_pos:next_pos].strip())
ContentLength(len, current_pos, next_pos, ws) ==
    Max(0, next_pos - current_pos - (IF next_pos < len THEN ws ELSE 0))

\* the condition of the while loop, line 408
LoopGoesOn ==
    /\ fb_loop.current_pos < fb_args.len
    /\ fb_loop.count < fb_args.max_chapters

\* lines 408-487: one iteration of the loop
FbRound(offset) ==
    /\ fb_pc = "loop"
    /\ LoopGoesOn
    /\ LET len == fb_args.len
           current_pos == fb_loop.current_pos
           next_pos == NextPos(len, current_pos, fb_loop.target, offset)
           content == ContentLength(len, current_pos, next_pos, fb_args.ws)
       IN  IF /\ content < TinyChars
              /\ fb_loop.chapter_num > 1
              /\ current_pos > len - MarginChars
           THEN \* lines 443-449: joined to the chapter before, and break
                /\ fb_loop' = [fb_loop EXCEPT
                                 !.total = IF fb_loop.count > 0 THEN @ + 2 + content
                                           ELSE @]
                /\ fb_pc' = "tail"
           ELSE /\ fb_loop' = [fb_loop EXCEPT
                                 !.count = IF content > 0 THEN @ + 1 ELSE @,
                                 !.total = @ + content,
                                 !.current_pos = next_pos,
                                 !.chapter_num = @ + 1]
                /\ fb_pc' = "loop"
    /\ UNCHANGED <<fb_args, fb_pass, fb_result>>
    /\ UNCHANGED otherThanFallback

\* lines 490-494: the chapters with what is left of the text
WithRemainder(loop, len) ==
    IF loop.current_pos < len
    THEN [loop EXCEPT !.count = @ + 1, !.total = @ + (len - loop.current_pos)]
    ELSE loop

\* lines 489-524 and 526-529: the loop is left, the rest of the text is
\* added, the coverage is measured
FbFinish ==
    /\ \/ fb_pc = "tail"
       \/ fb_pc = "loop" /\ ~LoopGoesOn
    /\ LET len == fb_args.len
           after == WithRemainder(fb_loop, len)
       IN  /\ fb_loop' = after
           /\ IF after.count = 0
              THEN /\ fb_result' = WholeText(len)
                   /\ fb_pc' = "done"
                   /\ UNCHANGED <<fb_args, fb_pass>>
              ELSE IF 100 * after.total < 95 * len
              THEN IF len > LargeDocChars /\ after.num_chapters < 30
                   THEN IF fb_pass < RecursionLimit
                        THEN \* line 513: the function calls itself
                             /\ fb_args' = [fb_args EXCEPT
                                              !.max_chapters = Max(30, @)]
                             /\ fb_pass' = fb_pass + 1
                             /\ fb_pc' = "call"
                             /\ UNCHANGED fb_result
                        ELSE \* RecursionError, caught at line 526 by the
                             \* innermost call; every caller returns it
                             /\ fb_result' = WholeText(len)
                             /\ fb_pc' = "done"
                             /\ UNCHANGED <<fb_args, fb_pass>>
                   ELSE /\ fb_result' = WholeText(len)
                        /\ fb_pc' = "done"
                        /\ UNCHANGED <<fb_args, fb_pass>>
              ELSE /\ fb_result' = [kind |-> "chapters", count |-> after.count,
                                    total |-> after.total]
                   /\ fb_pc' = "done"
                   /\ UNCHANGED <<fb_args, fb_pass>>
    /\ UNCHANGED otherThanFallback

(***************************************************************************)
(* Specifications                                                          *)
(***************************************************************************)
vars == <<chunkVars, cacheVars, bookVars, jobVars, chapterVars, hitVars, fallbackVars>>

NextChunk == CallSplit

InitSpecChunk == InitChunk /\ IdleCache /\ IdleBook /\ IdleJobs /\ IdleChapters /\ IdleHits /\ IdleFallback

SpecChunk == InitSpecChunk /\ [][NextChunk]_vars

NextCache ==
    \/ \E q \in CachePairs : CallGetCachedAudio(q[1], q[2])
    \/ \E q \in CachePairs, p \in CachePaths : CallCacheAudio(q[1], q[2], p)
    \/ \E d \in BOOLEAN : CallClearCache(d)
    \/ \E q \in CachePairs : CallCmGetCachedAudio(q[1], q[2])
    \/ \E q \in CachePairs, p \in CachePaths : CallCmCacheAudio(q[1], q[2], p)
    \/ \E p \in CachePaths : FsRemove(p)
    \/ \E p \in CachePaths, c \in {"empty", "data"} : FsWrite(p, c)

InitSpecCache == InitCache /\ IdleChunk /\ IdleBook /\ IdleJobs /\ IdleChapters /\ IdleHits /\ IdleFallback

SpecCache == InitSpecCache /\ [][NextCache]_vars

NextEvict ==
    \/ \E t \in EvictTexts : EvictGetCachedAudio(t)
    \/ \E t \in EvictTexts, p \in CachePaths : EvictCacheAudio(t, p)
    \/ \E p \in CachePaths : FsRemove(p)

InitSpecEvict == InitEvict /\ IdleChunk /\ IdleBook /\ IdleJobs /\ IdleChapters /\ IdleHits /\ IdleFallback

SpecEvict == InitSpecEvict /\ [][NextEvict]_vars

NextKey ==
    \/ \E t \in KeyTexts, s \in KeySettings : KeyCacheAudio(t, s)
    \/ \E t \in KeyTexts, s \in KeySettings : KeyGetCachedAudio(t, s)

InitSpecKey == InitKey /\ IdleChunk /\ IdleBook /\ IdleJobs /\ IdleChapters /\ IdleHits /\ IdleFallback

SpecKey == InitSpecKey /\ [][NextKey]_vars

NextHits ==
    \/ HitsCacheAudio
    \/ \E t \in HitThreads : HitExecute(t)
    \/ \E t \in HitThreads : HitFetch(t)
    \/ \E t \in HitThreads : HitUpdate(t)

InitSpecHits == InitHits /\ IdleChunk /\ IdleBook /\ IdleJobs /\ IdleChapters /\ IdleFallback

SpecHits == InitSpecHits /\ [][NextHits]_vars

NextBook ==
    \/ \E outcome \in ExtractOutcomes : BookExtract(outcome)
    \/ BookSkipBlank
    \/ \E ok \in BOOLEAN, n \in 1..MaxChunks : BookStartChapter(ok, n)
    \/ \E o \in {"ok", "error", "bad_audio"} : BookSynthAttempt(o)
    \/ BookNoClient
    \/ \E ok \in BOOLEAN : BookExportChapter(ok)
    \/ BookAfterLoop
    \/ \E ok \in BOOLEAN : BookBookmarks(ok)
    \/ \E ok \in BOOLEAN : BookCombine(ok)
    \/ BookFinish

InitSpecBook == InitBook /\ IdleChunk /\ IdleCache /\ IdleJobs /\ IdleChapters /\ IdleHits /\ IdleFallback

SpecBook == InitSpecBook /\ [][NextBook]_vars

NextJobs ==
    \/ \E t \in Threads : AcquireLock(t)
    \/ \E k \in Uploads : UploadSave(k)
    \/ \E k \in Uploads : UploadCreateJob(k)
    \/ \E k \in Uploads : UploadRegisterEnter(k)
    \/ \E k \in Uploads : UploadRegister(k)
    \/ \E k \in Uploads : ConvGetJob(k)
    \/ \E k \in Uploads : ConvSetProcessing(k)
    \/ \E k \in Uploads, ok \in BOOLEAN : ConvGetConverter(k, ok)
    \/ \E k \in Uploads : ConvSetFailedConverter(k)
    \/ \E k \in Uploads : ConvSetProgress(k)
    \/ \E k \in Uploads, o \in ConvOutcomes : ConvCreateAudiobook(k, o)
    \/ \E k \in Uploads : ConvSetFinal(k)
    \/ JanitorStart
    \/ JanitorSelect
    \/ \E ok \in BOOLEAN : JanitorRmtree(ok)
    \/ JanitorDelete
    \/ MaintenanceEnter
    \/ MaintenanceLeave
    \/ \E op \in {"api_status", "api_progress"} : CallerBegin(op)
    \/ \E id \in JobIds, s \in JobStatuses : CallerUpdateJobStatus(id, s)
    \/ \E id \in JobIds : CallerUpdateJobProgress(id)
    \/ \E k \in Uploads : JobAges(k)

InitSpecJobs == InitJobs /\ IdleChunk /\ IdleCache /\ IdleBook /\ IdleChapters /\ IdleHits /\ IdleFallback

SpecJobs == InitSpecJobs /\ [][NextJobs]_vars

NextChapters == \E nlp \in NlpOutcomes(ch_text) : CallDetect(nlp)

InitSpecChapters == InitChapters /\ IdleChunk /\ IdleCache /\ IdleBook /\ IdleJobs /\ IdleHits /\ IdleFallback

SpecChapters == InitSpecChapters /\ [][NextChapters]_vars

NextFallback ==
    \/ FbEnter
    \/ \E d \in BreakOffsets : FbRound(d)
    \/ FbFinish

InitSpecFallback ==
    InitFallback /\ IdleChunk /\ IdleCache /\ IdleBook /\ IdleJobs /\ IdleChapters
        /\ IdleHits

SpecFallback == InitSpecFallback /\ [][NextFallback]_vars

NextText ==
    \/ CallSplit
    \/ \E nlp \in NlpOutcomes(ch_text) : CallDetect(nlp)

\* one of the two splitters gets a text, the other the empty string
InitSpecText ==
    /\ \/ InitChunk /\ IdleChapters
       \/ IdleChunk /\ InitChapters
    /\ IdleCache /\ IdleBook /\ IdleJobs /\ IdleHits /\ IdleFallback

SpecText == InitSpecText /\ [][NextText]_vars

(***************************************************************************)
(* Properties                                                              *)
(***************************************************************************)

\* C1: every chunk returned by _split_text_to_chunks(text, max_size) has
\* length at most min(max_size, 4000), on every path, the
\* exception-fallback path included.
C1_ChunkSizeBound ==
    ck_result.done =>
        \A k \in 1..Len(ck_result.chunks) :
            Len(ck_result.chunks[k]) <= Min(ck_max, ApiLimit)

\* C2: whatever the text, max_chapters and the strategy the chapters come
\* from, detect_chapters returns either chapters whose contents add up to
\* at least 0.90 x len(text.strip()) or exactly the one chapter
\* ('Complete Document', text).
C2_CoverageOrWhole ==
    ch_result.done =>
        \/ ch_result.chapters = SingleChapter(ch_text)
        \/ /\ ch_result.chapters # <<>>
           /\ 10 * SumContent(ch_result.chapters, Len(ch_result.chapters))
                >= 9 * Len(Strip(ch_text))

\* C2: a strategy's chapters failed the coverage check and the single
\* chapter took their place
C2_Witness ==
    /\ ch_result.done
    /\ ch_result.via = "gate"
    /\ ch_result.chapters = SingleChapter(ch_text)

\* the text has a character that is not whitespace
HasNonWs(text) == \E k \in 1..Len(text) : ~IsWs(text[k])

\* C3 as stated: neither detect_chapters nor _split_text_to_chunks lets an
\* exception out; an error in any strategy gives the single whole-text
\* chapter, an error in chunking gives fixed-size character chunks; the
\* list returned is never empty.
C3_NeverRaisesNonEmpty ==
    /\ ch_result.done =>
          /\ ~ch_result.raised
          /\ ch_result.chapters # <<>>
          /\ ch_result.errors # {} => ch_result.chapters = SingleChapter(ch_text)
    /\ ck_result.done =>
          /\ ~ck_result.raised
          /\ ck_result.chunks # <<>>
          /\ SplitTry(ck_text, ck_max).exc => ck_result.chunks = CharacterChunks(ck_text)

\* C3, amended: neither function lets an exception out.  detect_chapters
\* always returns a non-empty list; an error in the fallback strategy gives
\* the single whole-text chapter, an error in the semantic strategy hands
\* over to the fallback strategy.  An error in chunking gives fixed-size
\* character chunks; _split_text_to_chunks returns a non-empty list exactly
\* when the text fits the limit, or max_size is not negative and the text
\* is not blank.
C3_NeverRaises ==
    /\ ch_result.done =>
          /\ ~ch_result.raised
          /\ ch_result.chapters # <<>>
          /\ "fallback" \in ch_result.errors => ch_result.chapters = SingleChapter(ch_text)
          /\ "semantic" \in ch_result.errors => ch_result.via \in {"fallback", "gate"}
    /\ ck_result.done =>
          /\ ~ck_result.raised
          /\ SplitTry(ck_text, ck_max).exc => ck_result.chunks = CharacterChunks(ck_text)
          /\ ck_result.chunks # <<>> <=>
                \/ Len(ck_text) <= Min(ck_max, ApiLimit)
                \/ ck_max >= 0 /\ HasNonWs(ck_text)

\* C3: chunking raised and the character chunks were returned
C3_Witness ==
    /\ ck_result.done
    /\ SplitTry(ck_text, ck_max).exc
    /\ ck_result.chunks = CharacterChunks(ck_text)
    /\ ck_result.chunks # <<>>

FailedForGood(calls) ==
    /\ calls # <<>>
    /\ \/ calls[Len(calls)].outcome = "bad_audio"
       \/ /\ calls[Len(calls)].outcome = "error"
          /\ calls[Len(calls)].attempt = MaxRetries

\* the chunks of the calls that succeeded, in the order of the calls
ChunksSynthesized(calls) ==
    LET ok == SelectSeq(calls, LAMBDA c : c.outcome = "ok")
    IN  [k \in 1..Len(ok) |-> ok[k].chunk]

\* C11: in generate_audio the API call of a chunk is attempted at most 3
\* times and not again after its first success; chunks are submitted in
\* sequence order and the audio is concatenated in that order.  When the
\* third attempt fails the chapter fails, no later chunk of it is
\* submitted, and create_audiobook goes on with the next chapter.
C11_BoundedRetriesInOrder ==
    LET calls == bk_log.calls IN
    /\ \A j \in 1..Len(calls) :
          /\ calls[j].attempt \in 1..MaxRetries
          /\ calls[j].chapter = calls[1].chapter
    /\ calls # <<>> =>
          /\ calls[1].chunk = 1
          /\ calls[1].attempt = 1
    /\ \A j \in 1..(Len(calls) - 1) :
          IF calls[j].outcome = "ok"
          THEN /\ calls[j + 1].chunk = calls[j].chunk + 1
               /\ calls[j + 1].attempt = 1
          ELSE /\ calls[j].outcome = "error"
               /\ calls[j + 1].chunk = calls[j].chunk
               /\ calls[j + 1].attempt = calls[j].attempt + 1
    /\ bk_pc \in {"synth", "export"} =>
          /\ bk_audio = ChunksSynthesized(calls)
          /\ bk_audio = [k \in 1..(bk_chunk - 1) |-> k]
    /\ bk_pc = "export" => Len(bk_audio) = bk_chunks
    /\ FailedForGood(calls) =>
          /\ calls[1].chapter \in bk_log.raised
          /\ bk_i = calls[1].chapter + 1
          /\ bk_pc \notin {"synth", "export"}
          /\ bk_i <= Len(bk_chapters) => (bk_pc = "loop" /\ bk_result = None)

\* the second chunk of the first chapter failed three times after the
\* first chunk had succeeded, and the second chapter is next
C11_Witness ==
    /\ bk_pc = "loop"
    /\ bk_i = 2
    /\ bk_i <= Len(bk_chapters)
    /\ Len(bk_log.calls) = 4
    /\ bk_log.calls[1].outcome = "ok"
    /\ bk_log.calls[4] = [chapter |-> 1, chunk |-> 2, attempt |-> MaxRetries,
                          outcome |-> "error"]

\* the pair the last call of the cache was made with
CalledPair == << cache_call.text, cache_call.settings >>

\* the pairs that share their cache key with pair q
SameKeyPairs(q) ==
    { p \in CachePairs : GenerateHash(p[1], p[2]) = GenerateHash(q[1], q[2]) }

\* C6 as stated: a lookup of a pair whose stored file is still on disk and
\* whose entry was not evicted returns the stored path, and a lookup of a
\* pair that was never stored returns None.
C6_RoundTripByPair ==
    (cache_call.op = "get" /\ cache_call.impl = "tts") =>
        /\ cache_live[CalledPair] # None => cache_call.ret = cache_live[CalledPair]
        /\ CalledPair \notin cache_stored => cache_call.ret = None

\* C6 amended: pairs are told apart by their key only (the text with
\* whitespace runs collapsed, and voice, model, speed, style, emotion).  A
\* lookup returns the path last stored under the key of the pair while
\* that file is on disk and the entry was not evicted, and None when no
\* pair with that key was ever stored.
C6_RoundTripByKey ==
    (cache_call.op = "get" /\ cache_call.impl = "tts") =>
        /\ \A p \in SameKeyPairs(CalledPair) :
              cache_live[p] # None => cache_call.ret = cache_live[p]
        /\ SameKeyPairs(CalledPair) \cap cache_stored = {} => cache_call.ret = None

\* a lookup that returned the path stored for the very pair
C6_Witness ==
    /\ cache_call.op = "get"
    /\ cache_call.impl = "tts"
    /\ cache_call.ret # None
    /\ cache_live[CalledPair] = cache_call.ret

\* the rows of the cache in use that carry the key of pair q
RowsOfPair(impl, rows, cmrows, q) ==
    IF impl = "tts" THEN RowsWithHash(rows, GenerateHash(q[1], q[2]))
    ELSE { r \in cmrows : r.content_hash = GetContentHash(q[1], q[2]) }

InRegistry(t) == t \in jm_inside \/ jm_lock = t

\* C8: every access of active_jobs is made holding job_lock, so no two
\* threads are inside the registry at once.
C8_RegistryUnderLock ==
    /\ \A t \in Threads : InRegistry(t) => jm_lock = t
    /\ \A t1, t2 \in Threads : (InRegistry(t1) /\ InRegistry(t2)) => t1 = t2

\* the jobs the running sweep has selected and not yet removed
SelectedJobs == { jm_queue[i] : i \in 1..Len(jm_queue) }

\* C9: from the moment the sweep selects a job until it has removed the
\* job's files and entry, no update of that job takes effect.
C9_SweepExcludesUpdates ==
    [][ \A id \in SelectedJobs :
          (id \in DOMAIN jm_active_jobs /\ id \in DOMAIN jm_active_jobs') =>
              jm_active_jobs'[id] = jm_active_jobs[id] ]_vars

\* C10: once a job is failed or completed, a conversion thread that
\* finishes later leaves its status, error and result as they are.
C10_TerminalAbsorbing ==
    [][ \A k \in Uploads :
          ( /\ jm_pc[CvThread(k)] \in {"set_final", "set_failed_converter"}
            /\ jm_pc'[CvThread(k)] = "done"
            /\ UJob(k) \in DOMAIN jm_active_jobs
            /\ jm_active_jobs[UJob(k)].status \in {"completed", "failed"} ) =>
              /\ UJob(k) \in DOMAIN jm_active_jobs'
              /\ jm_active_jobs'[UJob(k)].status = jm_active_jobs[UJob(k)].status
              /\ jm_active_jobs'[UJob(k)].error = jm_active_jobs[UJob(k)].error
              /\ jm_active_jobs'[UJob(k)].result = jm_active_jobs[UJob(k)].result ]_vars

\* the statuses of the job status surface
SurfaceStatuses == {"queued", "processing", "completed", "partial", "failed"}

\* C12: the status process_job_thread leaves in the registry is the status
\* create_audiobook returned ("completed", "partial", or "failed" with an
\* error set), and every job in the registry has one of the statuses
\* queued, processing, completed, partial, failed.
C12_StatusMirrorsResult ==
    [][ /\ \A id \in DOMAIN jm_active_jobs' :
              jm_active_jobs'[id].status \in SurfaceStatuses
        /\ \A k \in Uploads :
              ( /\ jm_pc[CvThread(k)] = "set_final"
                /\ jm_pc'[CvThread(k)] = "done"
                /\ UJob(k) \in DOMAIN jm_active_jobs' ) =>
                  /\ jm_conv[k] \in {"completed", "partial"} =>
                        jm_active_jobs'[UJob(k)].status = jm_conv[k]
                  /\ jm_conv[k] \in {"failed", "raised"} =>
                        /\ jm_active_jobs'[UJob(k)].status = "failed"
                        /\ jm_active_jobs'[UJob(k)].error # None ]_vars

RECURSIVE SumLengths(_, _)
\* sum(len(chunk) for chunk in chunks[:n])
SumLengths(chunks, n) ==
    IF n = 0 THEN 0 ELSE Len(chunks[n]) + SumLengths(chunks, n - 1)

\* the characters of s that are not whitespace
NonWsCount(s) == Cardinality({ k \in 1..Len(s) : ~IsWs(s[k]) })

\* a single token: no whitespace at all
SingleToken(s) == \A k \in 1..Len(s) : ~IsWs(s[k])

\* text without a paragraph break
NoParagraphBreak(s) == Len(SplitParagraphs(s)) = 1

\* plain prose: inside the trimmed text every run of whitespace is one
\* character, or the two newlines of a paragraph break
PlainSpacing(s) ==
    LET t == Strip(s) IN
    \A k \in 1..(Len(t) - 1) :
        (IsWs(t[k]) /\ IsWs(t[k + 1])) =>
            /\ t[k] = "\n" /\ t[k + 1] = "\n"
            /\ ~IsWs(t[k - 1])
            /\ ~IsWs(t[k + 2])

\* C13 as stated: for plain prose, for a single token longer than the
\* limit and for text without paragraph breaks, each longer than max_size,
\* the lengths of the chunks add up to at least 0.95 x len(text.strip()).
C13_CoverageOfChunks ==
    ( /\ ck_result.done
      /\ ck_max >= 1
      /\ Len(ck_text) > ck_max
      /\ (SingleToken(ck_text) \/ NoParagraphBreak(ck_text) \/ PlainSpacing(ck_text)) ) =>
        100 * SumLengths(ck_result.chunks, Len(ck_result.chunks))
            >= 95 * Len(Strip(ck_text))

\* C13, amended: for a positive max_size and a text longer than it, the
\* chunks of a single token add up to len(text) exactly; the chunks of any
\* text hold at least as many characters as the text has non-whitespace
\* characters; and for plain prose only the separator at a chunk boundary
\* is dropped: the sum is at least len(text.strip()) - 2 x (chunks - 1),
\* and at least len(text.strip()) - (chunks - 1) without paragraph breaks.
C13_OnlySeparatorsDropped ==
    ( /\ ck_result.done
      /\ ck_max >= 1
      /\ Len(ck_text) > ck_max ) =>
        LET chunks == ck_result.chunks
            total == SumLengths(chunks, Len(chunks))
        IN  /\ SingleToken(ck_text) => total = Len(ck_text)
            /\ total >= NonWsCount(ck_text)
            /\ PlainSpacing(ck_text) =>
                  total + 2 * Max(Len(chunks) - 1, 0) >= Len(Strip(ck_text))
            /\ (PlainSpacing(ck_text) /\ NoParagraphBreak(ck_text)) =>
                  total + Max(Len(chunks) - 1, 0) >= Len(Strip(ck_text))

\* C13: two words with one space between them, split at the space, which
\* is dropped
C13_Witness ==
    /\ ck_result.done
    /\ ck_max >= 1
    /\ Len(ck_text) > ck_max
    /\ PlainSpacing(ck_text)
    /\ ~SingleToken(ck_text)
    /\ Len(ck_result.chunks) = 2
    /\ SumLengths(ck_result.chunks, 2) = Len(Strip(ck_text)) - 1

\* the text is k headings 'Chapter n: title', each followed by its body
IsMarkedText(text, bodies, k) ==
    /\ k \in 1..MaxMarkers
    /\ bodies \in [1..k -> MarkedBodies]
    /\ text = MarkedText(<<>>, bodies, k)

\* C14: for a text whose markers are k lines 'Chapter N: Title', each
\* followed by a body, detect_chapters returns exactly k chapters in marker
\* order, the i-th with the title captured after marker i and the body
\* between marker i and the next marker (or the end of the text).
C14_MarkedChapters ==
    ch_result.done =>
        \A k \in 1..MaxMarkers : \A bodies \in [1..k -> MarkedBodies] :
            IsMarkedText(ch_text, bodies, k) =>
                ch_result.chapters =
                    [i \in 1..k |-> [title |-> HeadingTitle(i), content |-> bodies[i]]]

\* C15: for a text of at most 500,000 characters and max_chapters >= 1,
\* detect_chapters returns at most max_chapters chapters, whichever
\* strategy they come from.
C15_AtMostMaxChapters ==
    (ch_result.done /\ ch_max >= 1 /\ Len(ch_text) <= FbLargeDoc) =>
        Len(ch_result.chapters) <= ch_max

\* C16: in the chapters of the explicit-marker strategy and of the
\* semantic strategy the start offsets in the source text are strictly
\* increasing and the contents lie in spans of the text that do not
\* overlap, also when the matches of several patterns overlap.  The
\* content of a chapter cut from the text is the text of its span.
C16_OrderedDisjointSpans ==
    (ch_result.done /\ ch_result.via \in {"explicit", "semantic"}) =>
        LET spans == ch_result.spans
            chapters == ch_result.chapters
        IN  /\ Len(spans) = Len(chapters)
            /\ \A i \in 1..Len(spans) :
                  /\ 0 <= spans[i].from
                  /\ spans[i].from < spans[i].to
                  /\ spans[i].to <= Len(ch_text)
                  /\ (ch_result.via = "explicit" \/ Len(ch_text) > SemSampleLen) =>
                        chapters[i].content = Slice(ch_text, spans[i].from, spans[i].to)
            /\ \A i \in 1..(Len(spans) - 1) :
                  /\ spans[i].from < spans[i + 1].from
                  /\ spans[i].to <= spans[i + 1].from

\* two matches of the explicit strategy overlap, and it returned several
\* chapters
C16_Witness ==
    /\ ch_result.done
    /\ ch_result.via = "explicit"
    /\ Len(ch_result.chapters) >= 2
    /\ \E i \in 1..(Len(AllMatches(ch_text)) - 1) :
          AllMatches(ch_text)[i + 1].start < AllMatches(ch_text)[i].end

\* the explicit strategy found chapters that hold less than 0.90 of the
\* trimmed text
ExplicitBelowGate(text) ==
    /\ text # <<>>
    /\ Len(Strip(text)) >= DetectMinLen
    /\ FindExplicitChapters(text) # <<>>
    /\ 10 * SumContent(FindExplicitChapters(text), Len(FindExplicitChapters(text)))
         < 9 * Len(Strip(text))

\* C17: the strategies are tried in the order explicit, semantic,
\* fixed-size, and when the explicit strategy yields chapters below the
\* 0.90 coverage gate, detection goes on to the semantic strategy instead
\* of using the explicit chapters or giving up.
C17_GateFailureFallsThrough ==
    (ch_result.done /\ ExplicitBelowGate(ch_text)) =>
        /\ Len(ch_result.tried) >= 2
        /\ ch_result.tried[1] = "explicit"
        /\ ch_result.tried[2] = "semantic"
        /\ ch_result.via # "gate"

\* the row of the text in the cache whose evictions are followed
EvictRow(rows, text) == RowsWithHash(rows, GenerateHash(text, EvictSettings))

\* C18: after every cache_audio call, and after any sequence of stores and
\* lookups, the table holds at most max_size rows; an eviction removes
\* exactly the rows of smallest last_accessed and no more than needed, so
\* a row accessed more recently than another is never evicted before it
\* and the row just stored stays; a lookup removes no row but a stale one.
C18_EvictsLeastRecentlyUsed ==
    [][ LET call == cache_call'
            old == cache_rows \ EvictRow(cache_rows, call.text)
            evicted == old \ cache_rows'
        IN  /\ Cardinality(cache_rows') <= EvictMaxSize
            /\ (call.op = "store" /\ cache_now' # cache_now) =>
                  /\ old \ evicted \subseteq cache_rows'
                  /\ \A e \in evicted, r \in cache_rows' :
                        e.last_accessed < r.last_accessed
                  /\ evicted # {} => Cardinality(cache_rows') = EvictMaxSize
                  /\ StoreAccepted(fs_files, call.path) =>
                        \E r \in cache_rows' :
                           /\ r.text_hash = GenerateHash(call.text, EvictSettings)
                           /\ r.audio_path = call.path
                           /\ r.last_accessed = cache_now'
                  /\ ~StoreAccepted(fs_files, call.path) => cache_rows' = cache_rows
            /\ (call.op = "get" /\ cache_now' # cache_now) =>
                  /\ evicted = {}
                  /\ old \subseteq cache_rows'
                  /\ call.ret # None =>
                        \E r \in cache_rows' :
                           /\ r.text_hash = GenerateHash(call.text, EvictSettings)
                           /\ r.last_accessed = cache_now'
      ]_vars

\* the last store made the table evict a row: the row just stored stays,
\* and so does a row that was stored before and has been hit since
C18_Witness ==
    /\ cache_call.op = "store"
    /\ Cardinality(cache_rows) = EvictMaxSize
    /\ Cardinality(cache_stored) > EvictMaxSize
    /\ \E r \in cache_rows :
          /\ r.access_count >= 2
          /\ r.last_accessed < cache_now
    /\ \E r \in cache_rows : r.last_accessed = cache_now /\ r.access_count = 1

\* C19: a store whose file is missing or zero-length is a no-op in both
\* caches: the table is left exactly as it was (no row inserted, none
\* replaced, none evicted), so a lookup answers as before the store.
C19_RejectedStoreIsNoOp ==
    [][ (/\ cache_call'.op = "store"
         /\ cache_now' # cache_now
         /\ ~StoreAccepted(fs_files, cache_call'.path)) =>
            /\ cache_rows' = cache_rows
            /\ cm_rows' = cm_rows
            /\ \A q \in CachePairs :
                  /\ GetCachedAudio(cache_rows', fs_files', cache_now', q[1], q[2]).ret
                       = GetCachedAudio(cache_rows, fs_files, cache_now', q[1], q[2]).ret
                  /\ CmGetCachedAudio(cm_rows', fs_files', cache_now', q[1], q[2]).ret
                       = CmGetCachedAudio(cm_rows, fs_files, cache_now', q[1], q[2]).ret
      ]_vars

\* no thread is inside get_cached_audio
HitsQuiet == \A t \in HitThreads : hit_pc[t] = "idle"

\* C20: every cache hit adds exactly one to access_count: once an entry is
\* stored and has been hit n times by get_cached_audio calls of several
\* threads, in any interleaving and with the file present throughout, its
\* access_count is 1 + n and the table holds exactly one row for the key.
C20_EveryHitCounted ==
    (HitsQuiet /\ cache_stored # {}) =>
        /\ Cardinality(RowsWithHash(cache_rows, GenerateHash(HitText, EvictSettings))) = 1
        /\ \A r \in RowsWithHash(cache_rows, GenerateHash(HitText, EvictSettings)) :
              r.access_count = 1 + hit_hits

\* the five settings fields the key is made of
KeyFields == {"voice", "model", "speed", "style", "emotion"}

RECURSIVE Squeeze(_, _, _)
\* the text from position i on with every run of whitespace between two
\* characters turned into one space and the whitespace at both ends
\* dropped; last is the character before position i, "" at the start
Squeeze(s, i, last) ==
    IF i > Len(s) THEN <<>>
    ELSE IF IsWs(s[i]) THEN Squeeze(s, i + 1, IF last = "" THEN "" ELSE " ")
    ELSE (IF last = " " THEN <<" ">> ELSE <<>>) \o <<s[i]>> \o Squeeze(s, i + 1, s[i])

\* the two texts differ only in their runs of whitespace
SameUpToWhitespace(t1, t2) == Squeeze(t1, 1, "") = Squeeze(t2, 1, "")

\* the value synthesis runs with: the default where the field is absent
EffectiveField(settings, f) ==
    IF f \in DOMAIN settings THEN settings[f]
    ELSE CASE f = "voice" -> "alloy"
           [] f = "model" -> "tts-1"
           [] f = "speed" -> "1.0"
           [] f = "style" -> "neutral"
           [] f = "emotion" -> ""

\* the two pairs agree in text up to whitespace and in the rendering of
\* the five fields, defaults filled in
SameEffectiveKey(q1, q2) ==
    /\ SameUpToWhitespace(q1[1], q2[1])
    /\ \A f \in KeyFields : EffectiveField(q1[2], f) = EffectiveField(q2[2], f)

\* Python's == on the values of the model: 1 == 1.0
PyEqual(a, b) == a = b \/ {a, b} = {"1", "1.0"}

\* the two pairs agree in text up to whitespace and hold the same five
\* fields with equal values
SameGivenKey(q1, q2) ==
    /\ SameUpToWhitespace(q1[1], q2[1])
    /\ \A f \in KeyFields :
          /\ (f \in DOMAIN q1[2]) = (f \in DOMAIN q2[2])
          /\ f \in DOMAIN q1[2] /\ f \in DOMAIN q2[2] => PyEqual(q1[2][f], q2[2][f])

\* C21 as stated: the key depends only on the whitespace-normalized text
\* and on the fields voice, model, speed, style, emotion of the settings:
\* a lookup hits exactly when a pair that differs from it in nothing but
\* whitespace runs and other fields has been stored.
C21_KeyByGivenFields ==
    (cache_call.op = "get" /\ cache_call.impl = "tts") =>
        /\ cache_call.ret # None <=>
              \E q \in cache_stored :
                 SameGivenKey(q, <<cache_call.text, cache_call.settings>>)
        /\ \A q \in cache_stored :
              (GenerateHash(q[1], q[2])
                 = GenerateHash(cache_call.text, cache_call.settings))
              <=> SameGivenKey(q, <<cache_call.text, cache_call.settings>>)

\* C21: the key depends only on the whitespace-normalized text and on the
\* rendering of the five fields with the default standing for an absent
\* field: a lookup hits exactly when such a pair has been stored, and two
\* pairs have one key exactly when they agree in these.
C21_KeyByEffectiveFields ==
    (cache_call.op = "get" /\ cache_call.impl = "tts") =>
        /\ cache_call.ret # None <=>
              \E q \in cache_stored :
                 SameEffectiveKey(q, <<cache_call.text, cache_call.settings>>)
        /\ \A q \in cache_stored :
              (GenerateHash(q[1], q[2])
                 = GenerateHash(cache_call.text, cache_call.settings))
              <=> SameEffectiveKey(q, <<cache_call.text, cache_call.settings>>)

\* a lookup hits the entry stored under a text of other whitespace and
\* settings with another field
C21_Witness ==
    /\ cache_call.op = "get"
    /\ cache_call.ret = HitPath
    /\ \E q \in cache_stored :
          /\ q[1] # cache_call.text
          /\ q[2] # cache_call.settings
          /\ "language" \in DOMAIN cache_call.settings

\* C22 as stated: a text no longer than max_size comes back as the one
\* chunk [text].
C22_SmallInputUnsplit ==
    (ck_result.done /\ Len(ck_text) <= ck_max) =>
        ck_result.chunks = << ck_text >>

\* C22: a text no longer than min(max_size, 4000) comes back as the one
\* chunk [text], whitespace and all, and nothing is raised.
C22_SmallInputUnsplitWithinCeiling ==
    (ck_result.done /\ Len(ck_text) <= Min(ck_max, ApiLimit)) =>
        /\ ck_result.chunks = << ck_text >>
        /\ ~ck_result.raised

\* a text of the largest size that is not split, with whitespace at both
\* ends, came back as it is
C22_Witness ==
    /\ ck_result.done
    /\ Len(ck_text) = Min(ck_max, ApiLimit)
    /\ Len(ck_text) >= 3
    /\ IsWs(ck_text[1])
    /\ IsWs(ck_text[Len(ck_text)])
    /\ ck_result.chunks = << ck_text >>

\* the scenario of the large document: 600,000 characters, max_chapters 30
LargeScenario ==
    /\ fb_pc = "done"
    /\ fb_args.len = 600000
    /\ fb_args.first_max = 30

C29_TargetFollowsTiers ==
    (fb_pc \notin {"idle", "call"} /\ fb_pass = 1 /\ fb_args.first_max >= 1) =>
        LET total_chars == fb_args.len
            num_chapters == fb_loop.num_chapters
        IN  /\ total_chars < 20000 => fb_result = WholeText(total_chars)
            /\ total_chars >= 20000 =>
                  /\ num_chapters >= 1
                  /\ num_chapters <= fb_args.max_chapters
                  /\ fb_args.max_chapters >= fb_args.first_max
                  /\ total_chars < 50000 => num_chapters <= 3
                  /\ total_chars < 200000 => num_chapters <= 5
                  /\ total_chars < 500000 => num_chapters <= 10
                  /\ total_chars >= 500000 => num_chapters >= 15
                  /\ total_chars > 500000 => fb_args.max_chapters >= 20

\* C26: below 95% coverage the fallback runs itself again at most once,
\* with a strictly larger chapter count, so it ends after at most two
\* passes; and every iteration of its loop that goes on moves the current
\* position forward.
C26_AtMostTwoPasses ==
    [][ /\ fb_pass' <= 2
        /\ fb_pass' > fb_pass =>
              TargetChapters(fb_args'.len,
                             RaisedMaxChapters(fb_args'.len, fb_args'.max_chapters))
                > fb_loop.num_chapters
        /\ (fb_pc = "loop" /\ fb_pc' = "loop") =>
              fb_loop'.current_pos > fb_loop.current_pos
      ]_vars

RECURSIVE Ascending(_)
\* the members of a set of integers in ascending order
Ascending(S) ==
    IF S = {} THEN <<>>
    ELSE LET m == CHOOSE x \in S : \A y \in S : x <= y
         IN  << m >> \o Ascending(S \ {m})

\* the chapters whose file was made: not skipped and not failed
SuccessfulChapters ==
    { i \in 1..Len(bk_chapters) : ~bk_chapters[i].blank /\ i \notin bk_log.raised }

\* C24: the combined audiobook is the concatenation of exactly the files of
\* the successful chapters, in ascending order of chapter index; chapters
\* that failed or were skipped have no part in it.  The order is that of the
\* chapter numbers in the file names, also for a list given backwards.
C24_CombinedInChapterOrder ==
    bk_log.combine = "ok" =>
        LET order == Ascending(SuccessfulChapters)
            files == [k \in 1..Len(order) |-> ChapterFilename(order[k])]
            backwards == [k \in 1..Len(order) |-> files[Len(order) + 1 - k]]
        IN  /\ bk_log.combined = files
            /\ SortByChapterNumber(backwards) = files

C24_Witness ==
    /\ bk_pc = "done"
    /\ bk_log.combine = "ok"
    /\ Len(bk_chapters) = 5
    /\ bk_log.raised = {2, 4}
    /\ bk_log.combined = << ChapterFilename(1), ChapterFilename(3), ChapterFilename(5) >>

\* an error met outside the chapter loop: in the setup or the extraction, in
\* the bookmarks or in the combining of the chapter files
ErrorOutsideLoop ==
    \/ bk_log.extract = "raised"
    \/ bk_log.bookmarks = "raised"
    \/ bk_log.combine = "failed"

StructuredResult ==
    /\ bk_result.status \in {"completed", "partial", "failed"}
    /\ bk_result.status = "failed" =>
          (bk_result.error # "" /\ bk_result.output_files = <<>>)

\* C25: create_audiobook always ends with a structured result; every error
\* outside the chapter loop gives status 'failed' with a non-empty message and
\* no output files, and the extraction is run once only.
C25_OutsideErrorsFail ==
    /\ bk_log.extractions <= 1
    /\ bk_pc = "done" =>
          /\ StructuredResult
          /\ ErrorOutsideLoop => bk_result.status = "failed"

\* C25, amended: create_audiobook always ends with a structured result; an
\* error of the setup or of the extraction gives status 'failed' with the
\* message of the exception and no output files, no chapter is attempted and
\* the extraction is run once only.  An error of the bookmarks or of the
\* combining is logged only: the status follows the chapter counts and the
\* chapter files stay in output_files.
C25_SetupErrorsFail ==
    /\ bk_log.extractions <= 1
    /\ bk_pc = "done" =>
          /\ StructuredResult
          /\ bk_log.extract = "raised" =>
                /\ bk_result.status = "failed"
                /\ bk_log.visited = <<>>
                /\ bk_log.bookmarks = "none" /\ bk_log.combine = "none"
          /\ (bk_log.bookmarks = "raised" \/ bk_log.combine = "failed") =>
                /\ bk_result.status =
                      ResultStatus(bk_successful, Len(bk_chapters))
                /\ bk_successful > 0
                /\ \A i \in SuccessfulChapters :
                      \E k \in 1..Len(bk_result.output_files) :
                          bk_result.output_files[k] = ChapterEntry(i)
          /\ bk_log.combine = "failed" =>
                \A k \in 1..Len(bk_result.output_files) :
                    bk_result.output_files[k] # CompleteEntry

C25_Witness ==
    /\ bk_pc = "done"
    /\ bk_log.extract = "raised"
    /\ bk_log.extractions = 1
    /\ bk_result = FailedResult("Unsupported file format: ")

RECURSIVE NonWsOf(_)
\* the characters of s that are not whitespace, in order
NonWsOf(s) ==
    IF s = <<>> THEN <<>>
    ELSE (IF IsWs(s[1]) THEN <<>> ELSE << s[1] >>) \o NonWsOf(Tail(s))

RECURSIVE ChunksText(_)
\* the chunks written one after the other
ChunksText(chunks) ==
    IF chunks = <<>> THEN <<>> ELSE chunks[1] \o ChunksText(Tail(chunks))

\* C27: for a positive max_size the chunks hold every word of the text once
\* and in the order of the text: read one after the other, without the
\* whitespace, they are the text without its whitespace.
C27_EveryWordOnceInOrder ==
    (ck_result.done /\ ck_max >= 1) =>
        NonWsOf(ChunksText(ck_result.chunks)) = NonWsOf(ck_text)

\* C28: the semantic strategy never scores more sentences than the maximum
\* sentence count, however many sentences the tokenizer has found.
C28_ScoredWithinCap ==
    ch_result.done => ch_result.scored <= MaxSentences

\* the registry entries that upload k has made
EntriesOf(k) == { id \in DOMAIN jm_active_jobs : id[2] = k }

\* C30: an upload leaves one entry in the registry, under the id the client
\* polls, and once the conversion thread of the upload has ended every entry
\* of the upload has a terminal status (completed or failed), which makes it
\* eligible for the sweep.
C30_OneEntryEndsTerminal ==
    \A k \in Uploads :
        /\ jm_pc[UpThread(k)] = "done" => EntriesOf(k) \subseteq { UJob(k) }
        /\ jm_pc[CvThread(k)] = "done" =>
              \A id \in EntriesOf(k) :
                  jm_active_jobs[id].status \in {"completed", "failed"}

====
